---------------------------- MODULE Spec2Model ----------------------------
(***************************************************************************)
(* BioGuard AI: the ingredient-conflict knowledge graph                    *)
(* (database/db_manager.py), the multi-source nutrition resolver           *)
(* (services/nutrition_api.py), the vision provider chain                  *)
(* (services/engine.py), the scan history (database/db_manager.py) and the *)
(* live camera scan flow (ui_components/camera_view.py).                   *)
(*                                                                         *)
(* Python strings are sequences of one-character strings, so that lower(), *)
(* strip() and the `in` substring test are computed, not assumed.          *)
(***************************************************************************)
EXTENDS Integers, Sequences, FiniteSets, TLC

VARIABLES
    graph,        \* DBManager.graph: the networkx DiGraph
    populate_i,   \* _populate_health_graph: index of the next seed tuple
    fc,           \* the current find_conflicts_in_graph call and its outcome
    inserts,      \* log of every add_edge call made on graph, in order
    db_manager,   \* the module global db_manager: 0 for None, else an instance
    instances,    \* the DBManager objects constructed so far: their graphs
    threads,      \* the session threads inside get_db_manager: position, locals
    login,        \* the login page of each browser session: language, selector, run
    api,          \* NutritionAPI: which credentials __init__ found
    gn,           \* the current get_nutrition call: inputs, loop position, outcome
    keys,         \* config.settings: which of GEMINI_API_KEY, OPENAI_API_KEY are set
    ai,           \* the current analyze_image call: order, loop position, outcome
    food_analysis,\* the rows of the SQLite table food_analysis, in insertion order
    history,      \* the current get_user_history call and its outcome
    clock,        \* time.time() / datetime.utcnow(), in ticks
    session,      \* st.session_state of one browser session (the camera page's keys)
    processor,    \* the session's LiveVisionProcessor
    user_profile, \* db.get_user(user_id) for the session's user
    run           \* the current script run of _render_camera_inner

vars ==
    <<graph, populate_i, fc, inserts, db_manager, instances, threads, login,
      api, gn, keys, ai, food_analysis, history, clock, session, processor,
      user_profile, run>>

\* the variables each part of the program leaves alone
singleton_vars == <<db_manager, instances, threads>>
handle_vars == <<singleton_vars, login>>
graph_vars == <<graph, populate_i, fc, inserts, handle_vars>>
history_vars == <<food_analysis, history>>
camera_vars == <<session, processor, user_profile, run>>
outside_graph == <<handle_vars, api, gn, keys, ai, history_vars, clock, camera_vars>>
outside_nutrition == <<graph_vars, keys, ai, history_vars, clock, camera_vars>>
outside_engine == <<graph_vars, api, gn, history_vars, clock, camera_vars>>
outside_history == <<graph_vars, api, gn, keys, ai, camera_vars>>
outside_singleton ==
    <<graph, populate_i, fc, inserts, login, api, gn, keys, ai, history_vars,
      clock, camera_vars>>
outside_login ==
    <<graph, populate_i, fc, inserts, singleton_vars, api, gn, keys, ai,
      history_vars, clock, camera_vars>>

---------------------------------------------------------------------------
(* Bounds of the model *)

MaxIngredients == 2     \* longest ingredient list passed to find_conflicts
MaxConditions == 2      \* longest condition list passed to find_conflicts
MaxInserts == 3         \* add_edge calls made after the seed population
MaxSources == 3         \* longest preferred_sources list
MaxThreads == 3         \* session threads that call get_db_manager
MaxSessions == 2        \* browser sessions on the login page
MaxReruns == 3          \* st.rerun() calls counted on the login page; the last stands for more

SeqsUpTo(S, n) == UNION {[1..k -> S] : k \in 0..n}

Min(a, b) == IF a < b THEN a ELSE b

---------------------------------------------------------------------------
(* Python str: lower(), strip(), `a in b` *)

\* str.lower() on one character: the ASCII letters
lower_map ==
    [c \in {"A","B","C","D","E","F","G","H","I","J","K","L","M",
            "N","O","P","Q","R","S","T","U","V","W","X","Y","Z"} |->
        CASE c = "A" -> "a" [] c = "B" -> "b" [] c = "C" -> "c" [] c = "D" -> "d"
          [] c = "E" -> "e" [] c = "F" -> "f" [] c = "G" -> "g" [] c = "H" -> "h"
          [] c = "I" -> "i" [] c = "J" -> "j" [] c = "K" -> "k" [] c = "L" -> "l"
          [] c = "M" -> "m" [] c = "N" -> "n" [] c = "O" -> "o" [] c = "P" -> "p"
          [] c = "Q" -> "q" [] c = "R" -> "r" [] c = "S" -> "s" [] c = "T" -> "t"
          [] c = "U" -> "u" [] c = "V" -> "v" [] c = "W" -> "w" [] c = "X" -> "x"
          [] c = "Y" -> "y" [] c = "Z" -> "z"]

lower_char(c) == IF c \in DOMAIN lower_map THEN lower_map[c] ELSE c

lower(s) == [k \in 1..Len(s) |-> lower_char(s[k])]

is_space(c) == c \in {" ", "\t", "\n"}

RECURSIVE lstrip(_)
lstrip(s) == IF s # <<>> /\ is_space(Head(s)) THEN lstrip(Tail(s)) ELSE s

RECURSIVE rstrip(_)
rstrip(s) ==
    IF s # <<>> /\ is_space(s[Len(s)]) THEN rstrip(SubSeq(s, 1, Len(s) - 1)) ELSE s

strip(s) == rstrip(lstrip(s))

\* Python `a in b` on strings: a occurs in b as a contiguous run
str_in(a, b) ==
    \E k \in 0..(Len(b) - Len(a)) : SubSeq(b, k + 1, k + Len(a)) = a

---------------------------------------------------------------------------
(* The seed list of _populate_health_graph *)

s_sodium == <<"s","o","d","i","u","m">>
s_hypertension == <<"h","y","p","e","r","t","e","n","s","i","o","n">>
s_blood_pressure == <<"b","l","o","o","d","_","p","r","e","s","s","u","r","e">>
s_sugar == <<"s","u","g","a","r">>
s_diabetes == <<"d","i","a","b","e","t","e","s">>
s_glucose_spike == <<"g","l","u","c","o","s","e","_","s","p","i","k","e">>
s_saturated_fat == <<"s","a","t","u","r","a","t","e","d","_","f","a","t">>
s_cholesterol == <<"c","h","o","l","e","s","t","e","r","o","l">>
s_preservatives == <<"p","r","e","s","e","r","v","a","t","i","v","e","s">>
s_digestive_health == <<"d","i","g","e","s","t","i","v","e","_","h","e","a","l","t","h">>
s_artificial_colors == <<"a","r","t","i","f","i","c","i","a","l","_","c","o","l","o","r","s">>
s_hyperactivity == <<"h","y","p","e","r","a","c","t","i","v","i","t","y">>
s_gluten == <<"g","l","u","t","e","n">>
s_celiac_disease == <<"c","e","l","i","a","c","_","d","i","s","e","a","s","e">>
s_lactose == <<"l","a","c","t","o","s","e">>
s_lactose_intolerance == <<"l","a","c","t","o","s","e","_","i","n","t","o","l","e","r","a","n","c","e">>
s_peanuts == <<"p","e","a","n","u","t","s">>
s_peanut_allergy == <<"p","e","a","n","u","t","_","a","l","l","e","r","g","y">>
s_trans_fat == <<"t","r","a","n","s","_","f","a","t">>
s_heart_disease == <<"h","e","a","r","t","_","d","i","s","e","a","s","e">>

conflicts == <<
    <<s_sodium, s_hypertension, "increases_risk", "high">>,
    <<s_sodium, s_blood_pressure, "increases", "high">>,
    <<s_sugar, s_diabetes, "increases_risk", "high">>,
    <<s_sugar, s_glucose_spike, "causes", "high">>,
    <<s_saturated_fat, s_cholesterol, "increases", "high">>,
    <<s_preservatives, s_digestive_health, "harms", "medium">>,
    <<s_artificial_colors, s_hyperactivity, "may_trigger", "low">>,
    <<s_gluten, s_celiac_disease, "triggers", "high">>,
    <<s_lactose, s_lactose_intolerance, "triggers", "high">>,
    <<s_peanuts, s_peanut_allergy, "triggers", "high">>,
    <<s_trans_fat, s_heart_disease, "increases_risk", "high">> >>

---------------------------------------------------------------------------
(* networkx.DiGraph as db_manager.py uses it: nodes and edges in insertion *)
(* order, one attribute dict per ordered (source, target) pair             *)

DiGraph == [nodes |-> <<>>, edges |-> <<>>]

has_node(G, n) == \E k \in 1..Len(G.nodes) : G.nodes[k] = n

add_node(nodes, n) ==
    IF \E k \in 1..Len(nodes) : nodes[k] = n THEN nodes ELSE Append(nodes, n)

\* a MultiDiGraph-like insertion: every call appends an edge
add_edge_parallel(G, source, target, relationship, severity) ==
    [nodes |-> add_node(add_node(G.nodes, source), target),
     edges |-> Append(G.edges, [source |-> source, target |-> target,
                                relationship |-> relationship,
                                severity |-> severity])]

\* self.graph.add_edge(source, target, relationship=..., severity=...)
add_edge(G, source, target, relationship, severity) ==
    LET e == [source |-> source, target |-> target,
              relationship |-> relationship, severity |-> severity]
        Same(k) == G.edges[k].source = source /\ G.edges[k].target = target
    IN  [nodes |-> add_node(add_node(G.nodes, source), target),
         edges |-> IF \E k \in 1..Len(G.edges) : Same(k)
                   THEN [k \in 1..Len(G.edges) |->
                            IF Same(k) THEN e ELSE G.edges[k]]
                   ELSE Append(G.edges, e)]

\* neighbours in either direction, as an undirected graph would give them
successors_undirected(G, n) ==
    IF has_node(G, n)
    THEN [error |-> FALSE,
          items |-> LET Touch(e) == e.source = n \/ e.target = n
                        hit == SelectSeq(G.edges, Touch)
                    IN  [k \in 1..Len(hit) |->
                            IF hit[k].source = n
                            THEN hit[k]
                            ELSE [hit[k] EXCEPT !.source = n,
                                                !.target = hit[k].source]]]
    ELSE [error |-> TRUE, items |-> <<>>]

\* the out-edges of n, most recently inserted first
successors_reversed(G, n) ==
    IF has_node(G, n)
    THEN [error |-> FALSE,
          items |-> LET From(e) == e.source = n
                        out == SelectSeq(G.edges, From)
                    IN  [k \in 1..Len(out) |-> out[Len(out) + 1 - k]]]
    ELSE [error |-> TRUE, items |-> <<>>]

\* self.graph.successors(n): the out-edges of n in insertion order;
\* networkx raises NetworkXError for a node that is not in the graph
successors(G, n) ==
    IF has_node(G, n)
    THEN [error |-> FALSE,
          items |-> LET From(e) == e.source = n IN SelectSeq(G.edges, From)]
    ELSE [error |-> TRUE, items |-> <<>>]

---------------------------------------------------------------------------
(* DBManager.find_conflicts_in_graph *)

\* any(cond.lower() in successor.lower() for cond in medical_conditions)
condition_matches(successor, medical_conditions) ==
    \E k \in 1..Len(medical_conditions) :
        str_in(lower(medical_conditions[k]), lower(successor))

\* the membership test with the guard dropped: every ingredient is looked up
ingredient_in_graph_unguarded(G, ingredient_lower) == TRUE

\* `if ingredient_lower in self.graph`
ingredient_in_graph(G, ingredient_lower) == has_node(G, ingredient_lower)

\* no filter on the user's conditions: every out-edge is reported
ingredient_conflicts_unfiltered(G, ingredient, medical_conditions) ==
    LET ingredient_lower == strip(lower(ingredient))
        succ == successors(G, ingredient_lower)
    IN  IF ingredient_in_graph(G, ingredient_lower)
        THEN [raised |-> succ.error,
              conflicts |-> [k \in 1..Len(succ.items) |->
                    [ingredient |-> ingredient,
                     health_condition |-> succ.items[k].target,
                     relationship |-> succ.items[k].relationship,
                     severity |-> succ.items[k].severity]]]
        ELSE [raised |-> FALSE, conflicts |-> <<>>]

\* the matches report the normalised ingredient, not the caller's string
ingredient_conflicts_normalised_name(G, ingredient, medical_conditions) ==
    LET ingredient_lower == strip(lower(ingredient))
        succ == successors(G, ingredient_lower)
        Hit(e) == condition_matches(e.target, medical_conditions)
        hits == SelectSeq(succ.items, Hit)
    IN  IF ingredient_in_graph(G, ingredient_lower)
        THEN [raised |-> succ.error,
              conflicts |-> [k \in 1..Len(hits) |->
                    [ingredient |-> ingredient_lower,
                     health_condition |-> hits[k].target,
                     relationship |-> hits[k].relationship,
                     severity |-> hits[k].severity]]]
        ELSE [raised |-> FALSE, conflicts |-> <<>>]

\* one iteration of `for ingredient in ingredients`
ingredient_conflicts(G, ingredient, medical_conditions) ==
    LET ingredient_lower == strip(lower(ingredient))
        succ == successors(G, ingredient_lower)
        Hit(e) == condition_matches(e.target, medical_conditions)
        hits == SelectSeq(succ.items, Hit)
    IN  IF ingredient_in_graph(G, ingredient_lower)
        THEN [raised |-> succ.error,
              conflicts |-> [k \in 1..Len(hits) |->
                    [ingredient |-> ingredient,
                     health_condition |-> hits[k].target,
                     relationship |-> hits[k].relationship,
                     severity |-> hits[k].severity]]]
        ELSE [raised |-> FALSE, conflicts |-> <<>>]

RECURSIVE find_conflicts_from(_, _, _, _, _)
find_conflicts_from(G, ingredients, medical_conditions, k, acc) ==
    IF k > Len(ingredients)
    THEN [raised |-> FALSE, conflicts |-> acc]
    ELSE LET r == ingredient_conflicts(G, ingredients[k], medical_conditions)
         IN  IF r.raised
             THEN [raised |-> TRUE, conflicts |-> <<>>]
             ELSE find_conflicts_from(G, ingredients, medical_conditions,
                                      k + 1, acc \o r.conflicts)

find_conflicts_in_graph(G, ingredients, medical_conditions) ==
    find_conflicts_from(G, ingredients, medical_conditions, 1, <<>>)

---------------------------------------------------------------------------
(* Inputs of find_conflicts_in_graph *)

s_Sodium_padded == <<" ","S","o","d","i","u","m"," ">>
s_unobtainium == <<"u","n","o","b","t","a","i","n","i","u","m">>
s_empty == <<>>
s_Sugar == <<"S","u","g","a","r">>
s_HYPERTENSION == <<"H","Y","P","E","R","T","E","N","S","I","O","N">>
s_hypertension_padded == <<" ","h","y","p","e","r","t","e","n","s","i","o","n"," ">>
s_High_Blood_Pressure_Stage_1 == <<"H","i","g","h"," ","B","l","o","o","d"," ","P","r","e","s","s","u","r","e"," ","S","t","a","g","e"," ","1">>
s_Diabetes == <<"D","i","a","b","e","t","e","s">>
s_pressure == <<"p","r","e","s","s","u","r","e">>
s_Chronic_Hypertension == <<"C","h","r","o","n","i","c"," ","H","y","p","e","r","t","e","n","s","i","o","n">>

IngredientInputs ==
    {s_sodium, s_Sodium_padded, s_Sugar, s_unobtainium, s_empty, s_hypertension}

ConditionInputs ==
    {s_hypertension, s_HYPERTENSION, s_hypertension_padded, s_empty,
     s_High_Blood_Pressure_Stage_1, s_Chronic_Hypertension, s_Diabetes,
     s_pressure, s_sodium}

---------------------------------------------------------------------------
(* The conflict graph of one DBManager: construction, then lookups *)

NoFindCall ==
    [state |-> "idle", ingredients |-> <<>>, medical_conditions |-> <<>>,
     conflicts |-> <<>>]

NoApi == [fooddata_key |-> FALSE, edamam |-> FALSE, nutritionix |-> FALSE]

NoNutritionCall ==
    [state |-> "idle", barcode |-> "None", query |-> "None",
     image_bytes |-> "None",
     preferred_sources |-> [is_none |-> TRUE, items |-> <<>>],
     sources |-> <<>>, i |-> 0, calls |-> <<>>, result |-> [none |-> TRUE]]

NoKeys == [gemini |-> FALSE, openai |-> FALSE]

NoAnalyzeCall ==
    [state |-> "idle", preferred_provider |-> <<>>, order |-> <<>>, i |-> 0,
     errors |-> <<>>, attempts |-> <<>>,
     result |-> [product |-> "None", health_score |-> 0, verdict |-> "None",
                 warnings |-> <<>>]]

NoHistoryCall == [state |-> "idle", user_id |-> "None", limit |-> 0, rows |-> <<>>]

NoBarcode == [barcode |-> "None", name |-> "None"]

\* a session that never opened the camera page
NoSession ==
    [scan_status |-> "None",
     pending_analysis_frame |-> [present |-> FALSE, frame |-> 0],
     pending_analysis_bbox |-> FALSE,
     last_nutrition_snapshot |-> [none |-> TRUE],
     last_barcode |-> NoBarcode,
     preferred_sources |-> <<>>]

NoProcessor ==
    [last_analysis_time |-> [is_none |-> TRUE, t |-> 0],
     current_detections |-> FALSE,
     barcode_data |-> NoBarcode]

NoProfile == [found |-> FALSE, medical_conditions |-> <<>>, allergies |-> <<>>]

NoScanResult ==
    [product |-> "None", health_score |-> 0, verdict |-> "None", warnings |-> <<>>,
     has_ingredients |-> FALSE, ingredients |-> <<>>, health_conflicts |-> <<>>,
     nutrients |-> [none |-> TRUE], data_source |-> "None"]

NoThread == [pc |-> "idle", instance |-> 0, returned |-> 0]

\* a fresh browser session on the login page: no key in st.session_state
NoLogin ==
    [pc |-> "idle", lang |-> "unset", lang_selector |-> "unset",
     lang_local |-> "unset", new_lang |-> "unset", reruns |-> 0,
     rendered |-> FALSE]

NoRun == [pc |-> "idle", result |-> NoScanResult, oracle_warnings |-> <<>>, wake |-> 0]

\* the parts of the program a specification does not exercise
singleton_unused ==
    /\ db_manager = 0
    /\ instances = <<>>
    /\ threads = [t \in 1..MaxThreads |-> NoThread]
    /\ login = [s \in 1..MaxSessions |-> NoLogin]

graph_unused ==
    /\ graph = DiGraph /\ populate_i = 1 /\ fc = NoFindCall /\ inserts = <<>>
    /\ singleton_unused
nutrition_unused == api = NoApi /\ gn = NoNutritionCall
engine_unused == keys = NoKeys /\ ai = NoAnalyzeCall
history_unused == food_analysis = <<>> /\ history = NoHistoryCall
camera_unused ==
    /\ session = NoSession
    /\ processor = NoProcessor
    /\ user_profile = NoProfile
    /\ run = NoRun

\* DBManager._init_graph: self.graph = nx.DiGraph()
Init ==
    /\ graph = DiGraph
    /\ populate_i = 1
    /\ fc = NoFindCall
    /\ inserts = <<>>
    /\ singleton_unused
    /\ nutrition_unused
    /\ engine_unused
    /\ history_unused
    /\ clock = 0
    /\ camera_unused

\* one iteration of the loop of _populate_health_graph
PopulateHealthGraph ==
    /\ populate_i <= Len(conflicts)
    /\ LET c == conflicts[populate_i]
       IN  /\ graph' = add_edge(graph, c[1], c[2], c[3], c[4])
           /\ inserts' = Append(inserts, c)
    /\ populate_i' = populate_i + 1
    /\ UNCHANGED <<fc, outside_graph>>

Populated == populate_i > Len(conflicts)

\* a caller runs find_conflicts_in_graph on the constructed DBManager
FindConflictsInGraph ==
    /\ Populated
    /\ fc.state = "idle"
    /\ \E ingredients \in SeqsUpTo(IngredientInputs, MaxIngredients),
          medical_conditions \in SeqsUpTo(ConditionInputs, MaxConditions) :
          LET r == find_conflicts_in_graph(graph, ingredients, medical_conditions)
          IN  fc' = [state |-> IF r.raised THEN "raised" ELSE "returned",
                     ingredients |-> ingredients,
                     medical_conditions |-> medical_conditions,
                     conflicts |-> r.conflicts]
    /\ UNCHANGED <<graph, populate_i, inserts, outside_graph>>

\* the caller has consumed the list; the call's locals are gone
FindConflictsDone ==
    /\ fc.state # "idle"
    /\ fc' = NoFindCall
    /\ UNCHANGED <<graph, populate_i, inserts, outside_graph>>

Next == PopulateHealthGraph \/ FindConflictsInGraph \/ FindConflictsDone

Spec == Init /\ [][Next]_vars

---------------------------------------------------------------------------
(* Edge insertion after the seed population.  db_manager.py has no runtime *)
(* insertion of its own: add_relationship is the operation the design      *)
(* describes, carried out by the add_edge call of _populate_health_graph.  *)

RECURSIVE populate_from(_, _)
populate_from(G, k) ==
    IF k > Len(conflicts)
    THEN G
    ELSE populate_from(add_edge(G, conflicts[k][1], conflicts[k][2],
                                conflicts[k][3], conflicts[k][4]), k + 1)

\* the graph as _populate_health_graph leaves it
_populate_health_graph == populate_from(DiGraph, 1)

InsertInputs ==
    {s_sodium, s_sugar} \X {s_hypertension, s_diabetes}
        \X {"increases_risk", "triggers"} \X {"high", "low"}

InitInsert ==
    /\ graph = _populate_health_graph
    /\ populate_i = Len(conflicts) + 1
    /\ fc = NoFindCall
    /\ inserts = conflicts
    /\ singleton_unused
    /\ nutrition_unused
    /\ engine_unused
    /\ history_unused
    /\ clock = 0
    /\ camera_unused

add_relationship ==
    /\ Len(inserts) < Len(conflicts) + MaxInserts
    /\ \E a \in InsertInputs :
          /\ graph' = add_edge(graph, a[1], a[2], a[3], a[4])
          /\ inserts' = Append(inserts, a)
    /\ UNCHANGED <<populate_i, fc, outside_graph>>

NextInsert == add_relationship

SpecInsert == InitInsert /\ [][NextInsert]_vars

---------------------------------------------------------------------------
(* Claims about the conflict graph *)

EdgeHeld(G, i, c) ==
    \E k \in 1..Len(G.edges) : G.edges[k].source = i /\ G.edges[k].target = c

C2_ReversedLookupEmpty ==
    /\ fc.state = "idle" => \A k \in 1..Len(graph.edges) :
          LET e == graph.edges[k]
              r == find_conflicts_in_graph(graph, <<e.target>>, <<e.source>>)
          IN  ~r.raised /\ r.conflicts = <<>>
    /\ (/\ fc.state # "idle"
        /\ Len(fc.ingredients) = 1
        /\ Len(fc.medical_conditions) = 1
        /\ EdgeHeld(graph, fc.medical_conditions[1], fc.ingredients[1]))
       => fc.state = "returned" /\ fc.conflicts = <<>>

C2_Witness ==
    /\ fc.state = "returned"
    /\ fc.ingredients = <<s_hypertension>>
    /\ fc.medical_conditions = <<s_sodium>>
    /\ fc.conflicts = <<>>

Normalised(strs) == [k \in 1..Len(strs) |-> strip(lower(strs[k]))]

MatchTriples(ms) ==
    [k \in 1..Len(ms) |-> <<ms[k].health_condition, ms[k].relationship,
                            ms[k].severity>>]

\* C3: a call returns the same (health_condition, relationship, severity)
\* matches as the call with every ingredient and every condition lower-cased
\* and stripped of leading and trailing whitespace
C3_CaseAndWhitespaceInsensitive ==
    fc.state # "idle" =>
        /\ fc.state = "returned"
        /\ MatchTriples(fc.conflicts) =
             MatchTriples(find_conflicts_in_graph(graph,
                 Normalised(fc.ingredients),
                 Normalised(fc.medical_conditions)).conflicts)

ContainedEitherWay(label, cond) ==
    \/ str_in(lower(label), lower(cond))
    \/ str_in(lower(cond), lower(label))

\* C4: an edge fires exactly when its condition label is contained in one of
\* the caller's conditions or one of them is contained in the label (case
\* ignored); the edge to blood_pressure fires for "High Blood Pressure Stage 1"
C4_SubstringEitherDirection ==
    fc.state # "idle" =>
        /\ fc.state = "returned"
        /\ \A n \in 1..Len(fc.ingredients), k \in 1..Len(graph.edges) :
              LET e == graph.edges[k]
              IN  e.source = strip(lower(fc.ingredients[n])) =>
                    ((\E m \in 1..Len(fc.conflicts) :
                         /\ fc.conflicts[m].ingredient = fc.ingredients[n]
                         /\ fc.conflicts[m].health_condition = e.target)
                     <=> (\E j \in 1..Len(fc.medical_conditions) :
                            ContainedEitherWay(e.target,
                                               fc.medical_conditions[j])))
        /\ (/\ \E n \in 1..Len(fc.ingredients) : fc.ingredients[n] = s_sodium
            /\ \E j \in 1..Len(fc.medical_conditions) :
                  fc.medical_conditions[j] = s_High_Blood_Pressure_Stage_1)
           => \E m \in 1..Len(fc.conflicts) :
                  fc.conflicts[m].health_condition = s_blood_pressure

NoOutgoingEdge(G, ingredient) ==
    ~\E k \in 1..Len(G.edges) : G.edges[k].source = strip(lower(ingredient))

\* C5: an ingredient with no outgoing edge is skipped: the call returns
\* without error, no match carries that ingredient, and the result is the one
\* the call returns for the remaining ingredients alone
C5_UnknownIngredientSkipped ==
    fc.state # "idle" =>
        /\ fc.state = "returned"
        /\ \A m \in 1..Len(fc.conflicts) :
              ~NoOutgoingEdge(graph, fc.conflicts[m].ingredient)
        /\ LET Known(i) == ~NoOutgoingEdge(graph, i)
           IN  fc.conflicts =
                 find_conflicts_in_graph(graph,
                     SelectSeq(fc.ingredients, Known),
                     fc.medical_conditions).conflicts

C5_Witness ==
    /\ fc.state = "returned"
    /\ fc.ingredients = <<s_unobtainium, s_sodium>>
    /\ fc.medical_conditions = <<s_hypertension>>
    /\ Len(fc.conflicts) = 1
    /\ fc.conflicts[1].ingredient = s_sodium

\* C6: an empty-string ingredient and an empty-string condition produce no
\* match and no error: the result is that of the call without them
C6_EmptyStringsYieldNoMatch ==
    fc.state # "idle" =>
        /\ fc.state = "returned"
        /\ LET NonEmpty(x) == x # <<>>
           IN  fc.conflicts =
                 find_conflicts_in_graph(graph,
                     SelectSeq(fc.ingredients, NonEmpty),
                     SelectSeq(fc.medical_conditions, NonEmpty)).conflicts

SamePair(a, b) == a[1] = b[1] /\ a[2] = b[2]

\* C7: after any sequence of insertions the graph holds exactly one edge for
\* each inserted (ingredient, condition) pair, carrying the relationship and
\* severity of the most recent insertion of that pair, and find_conflicts
\* reports that pair once
C7_OneEdgePerPairLastWriteWins ==
    /\ \A j, k \in 1..Len(graph.edges) :
          (graph.edges[j].source = graph.edges[k].source
           /\ graph.edges[j].target = graph.edges[k].target) => j = k
    /\ \A k \in 1..Len(graph.edges) :
          \E n \in 1..Len(inserts) :
              /\ inserts[n][1] = graph.edges[k].source
              /\ inserts[n][2] = graph.edges[k].target
    /\ \A n \in 1..Len(inserts) :
          LET last == CHOOSE m \in n..Len(inserts) :
                        /\ SamePair(inserts[m], inserts[n])
                        /\ \A q \in (m + 1)..Len(inserts) :
                              ~SamePair(inserts[q], inserts[n])
              a == inserts[last]
              r == find_conflicts_in_graph(graph, <<a[1]>>, <<a[2]>>)
              Mine(c) == c.health_condition = a[2]
          IN  /\ \E k \in 1..Len(graph.edges) :
                    graph.edges[k] = [source |-> a[1], target |-> a[2],
                                      relationship |-> a[3], severity |-> a[4]]
              /\ SelectSeq(r.conflicts, Mine) =
                    <<[ingredient |-> a[1], health_condition |-> a[2],
                       relationship |-> a[3], severity |-> a[4]]>>

C7_Witness ==
    /\ Len(inserts) = Len(conflicts) + 2
    /\ inserts[Len(inserts)] = <<s_sodium, s_hypertension, "triggers", "low">>
    /\ inserts[Len(inserts) - 1] =
          <<s_sodium, s_hypertension, "increases_risk", "high">>
    /\ Len(graph.edges) = Len(conflicts)

\* the (ingredient position, insertion number) pairs of a lookup that match:
\* the insertion made an edge from the normalised ingredient to a label that
\* contains one of the caller's conditions
MatchingPairs ==
    {p \in (1..Len(fc.ingredients)) \X (1..Len(inserts)) :
        /\ inserts[p[2]][1] = strip(lower(fc.ingredients[p[1]]))
        /\ \E k \in 1..Len(fc.medical_conditions) :
              str_in(lower(fc.medical_conditions[k]), lower(inserts[p[2]][2]))}

\* p comes before q: earlier ingredient position, then earlier insertion
PairBefore(p, q) == p[1] < q[1] \/ (p[1] = q[1] /\ p[2] < q[2])

PairRank(p) == 1 + Cardinality({q \in MatchingPairs : PairBefore(q, p)})

\* C17: find_conflicts returns one match per matching (ingredient occurrence,
\* edge) pair, ordered by the position of the ingredient in the input list
\* and then by the insertion order of the edges; an ingredient listed twice
\* yields its matches at both positions
C17_OneMatchPerOccurrenceInOrder ==
    fc.state = "returned" =>
       /\ Len(fc.conflicts) = Cardinality(MatchingPairs)
       /\ \A p \in MatchingPairs :
             /\ fc.conflicts[PairRank(p)].ingredient = fc.ingredients[p[1]]
             /\ fc.conflicts[PairRank(p)].health_condition = inserts[p[2]][2]
             /\ fc.conflicts[PairRank(p)].relationship = inserts[p[2]][3]
             /\ fc.conflicts[PairRank(p)].severity = inserts[p[2]][4]

C17_Witness ==
    /\ fc.state = "returned"
    /\ fc.ingredients = <<s_Sugar, s_Sugar>>
    /\ fc.medical_conditions = <<s_empty>>
    /\ Len(fc.conflicts) = 4
    /\ fc.conflicts[1].health_condition = s_diabetes
    /\ fc.conflicts[2].health_condition = s_glucose_spike
    /\ fc.conflicts[3] = fc.conflicts[1]
    /\ fc.conflicts[4] = fc.conflicts[2]

---------------------------------------------------------------------------
(* services/nutrition_api.py: Python values.  A scalar None is the string  *)
(* "None", a dict is a function on its keys, a missing dict is NoneDict.   *)

None == "None"
NoneDict == [none |-> TRUE]

\* dict.get(key, default)
get(d, key, default) == IF key \in DOMAIN d THEN d[key] ELSE default

\* truth value of a dict-or-None and of a str-or-None
truthy_dict(d) == d # NoneDict /\ DOMAIN d # {}
truthy_str(x) == x # None /\ x # ""

\* _format_response with every source reported as the default first source
_format_response_fixed_source(data, source) ==
    [source |-> "openfoodfacts",
     calories |-> get(data, "calories", None),
     carbs |-> get(data, "carbohydrates", None),
     fat |-> get(data, "fat", None),
     protein |-> get(data, "protein", None),
     sugar |-> get(data, "sugars", None),
     raw |-> data]

\* NutritionAPI._format_response
_format_response(data, source) ==
    [source |-> source,
     calories |-> get(data, "calories", None),
     carbs |-> get(data, "carbohydrates", None),
     fat |-> get(data, "fat", None),
     protein |-> get(data, "protein", None),
     sugar |-> get(data, "sugars", None),
     raw |-> data]

---------------------------------------------------------------------------
(* What a provider can answer to one HTTP request *)

RequestFailed == [label |-> "exception", exc |-> TRUE]

Http(label, status_code, body) ==
    [label |-> label, exc |-> FALSE, status_code |-> status_code, body |-> body]

TextBody == [kind |-> "text"]                  \* not JSON
ArrayBody == [kind |-> "array"]                \* JSON, but a list at top level
ObjectBody(obj) == [kind |-> "object", obj |-> obj]

\* resp.json(): raises on a body that is not JSON
resp_json(resp) ==
    IF resp.body.kind = "text"
    THEN [raised |-> TRUE, is_dict |-> FALSE, obj |-> <<>>]
    ELSE IF resp.body.kind = "array"
    THEN [raised |-> FALSE, is_dict |-> FALSE, obj |-> <<>>]
    ELSE [raised |-> FALSE, is_dict |-> TRUE, obj |-> resp.body.obj]

Returned(value) == [raised |-> FALSE, value |-> value]
Raised == [raised |-> TRUE, value |-> NoneDict]

CommonResponses ==
    {RequestFailed,
     Http("non200", 404, TextBody),
     Http("not_json", 200, TextBody),
     Http("json_array", 200, ArrayBody),
     Http("missing_key", 200, ObjectBody(<<>>))}

off_product ==
    ("nutriments" :> ("energy-kcal_100g" :> "52" @@ "carbohydrates_100g" :> "14"
                      @@ "fat_100g" :> "0" @@ "proteins_100g" :> "1"
                      @@ "sugars_100g" :> "10")
     @@ "product_name" :> "Apple juice")

OpenFoodFactsResponses ==
    CommonResponses \cup
    {Http("empty", 200, ObjectBody("product" :> <<>>)),
     Http("data", 200, ObjectBody("product" :> off_product))}

fdc_food ==
    ("description" :> "APPLE"
     @@ "foodNutrients" :> <<[name |-> "Energy", amount |-> "52"],
                             [name |-> "Protein", amount |-> "1"],
                             [name |-> "Sugars, total", amount |-> "10"]>>)

FoodDataResponses ==
    CommonResponses \cup
    {Http("empty", 200, ObjectBody("foods" :> <<>>)),
     Http("data", 200, ObjectBody("foods" :> <<fdc_food>>))}

edamam_nutrients ==
    ("ENERC_KCAL" :> "52" @@ "CHOCDF" :> "14" @@ "FAT" :> "0"
     @@ "PROCNT" :> "1" @@ "SUGAR" :> "10")

edamam_hint == ("food" :> ("label" :> "Apple" @@ "nutrients" :> edamam_nutrients))

EdamamResponses ==
    CommonResponses \cup
    {Http("empty", 200, ObjectBody("hints" :> <<>>)),
     Http("data", 200, ObjectBody("hints" :> <<edamam_hint>>))}

vision_parsed == ("food" :> "apple" @@ "nutrients" :> edamam_nutrients)

EdamamVisionResponses ==
    CommonResponses \cup
    {Http("empty_ingredients", 200, ObjectBody("ingredients" :> <<>>)),
     Http("unparsed", 200, ObjectBody("ingredients" :> <<("parsed" :> <<>>)>>)),
     Http("data", 200,
          ObjectBody("ingredients" :> <<("parsed" :> <<vision_parsed>>)>>))}

nix_item ==
    ("food_name" :> "apple" @@ "nf_calories" :> "52"
     @@ "nf_total_carbohydrate" :> "14" @@ "nf_total_fat" :> "0"
     @@ "nf_protein" :> "1" @@ "nf_sugars" :> "10")

NutritionixResponses ==
    CommonResponses \cup
    {Http("empty", 200, ObjectBody("foods" :> <<>>)),
     Http("data", 200, ObjectBody("foods" :> <<nix_item>>))}

---------------------------------------------------------------------------
(* The adapters.  resp is the answer to the adapter's one HTTP request.    *)

\* NutritionAPI.fetch_from_openfoodfacts
fetch_from_openfoodfacts(barcode, resp) ==
    IF resp.exc
    THEN Returned(NoneDict)
    ELSE IF resp.status_code = 200
    THEN LET j == resp_json(resp)
         IN  IF j.raised \/ ~j.is_dict
             THEN Raised
             ELSE LET product == get(j.obj, "product", NoneDict)
                  IN  IF truthy_dict(product)
                      THEN LET nutr == get(product, "nutriments", <<>>)
                           IN  Returned(_format_response(
                                 ("calories" :> get(nutr, "energy-kcal_100g", None)
                                  @@ "carbohydrates" :> get(nutr, "carbohydrates_100g", None)
                                  @@ "fat" :> get(nutr, "fat_100g", None)
                                  @@ "protein" :> get(nutr, "proteins_100g", None)
                                  @@ "sugars" :> get(nutr, "sugars_100g", None)
                                  @@ "product_name" :> get(product, "product_name", None)),
                                 "openfoodfacts"))
                      ELSE Returned(NoneDict)
    ELSE Returned(NoneDict)

\* {n.get("name"): n.get("amount") for n in foodNutrients}[name], or None
nutrient_amount(food_nutrients, name) ==
    LET Named(n) == n.name = name
        hits == SelectSeq(food_nutrients, Named)
    IN  IF hits = <<>> THEN None ELSE hits[Len(hits)].amount

\* NutritionAPI.fetch_from_fooddata
fetch_from_fooddata(self, query, resp) ==
    IF ~self.fooddata_key
    THEN Returned(NoneDict)
    ELSE IF resp.exc
    THEN Returned(NoneDict)
    ELSE IF resp.status_code = 200
    THEN LET j == resp_json(resp)
         IN  IF j.raised \/ ~j.is_dict
             THEN Raised
             ELSE LET foods == get(j.obj, "foods", <<>>)
                  IN  IF foods # <<>>
                      THEN LET fn == get(foods[1], "foodNutrients", <<>>)
                           IN  Returned(_format_response(
                                 ("calories" :> nutrient_amount(fn, "Energy")
                                  @@ "carbohydrates" :>
                                       nutrient_amount(fn, "Carbohydrate, by difference")
                                  @@ "fat" :> nutrient_amount(fn, "Total lipid (fat)")
                                  @@ "protein" :> nutrient_amount(fn, "Protein")
                                  @@ "sugars" :> nutrient_amount(fn, "Sugars, total")
                                  @@ "product_name" :> get(foods[1], "description", None)),
                                 "fooddata"))
                      ELSE Returned(NoneDict)
    ELSE Returned(NoneDict)

\* NutritionAPI.fetch_from_edamam
fetch_from_edamam(self, ingredient, resp) ==
    IF ~self.edamam
    THEN Returned(NoneDict)
    ELSE IF resp.exc
    THEN Returned(NoneDict)
    ELSE IF resp.status_code = 200
    THEN LET j == resp_json(resp)
         IN  IF j.raised \/ ~j.is_dict
             THEN Raised
             ELSE LET hints == get(j.obj, "hints", <<>>)
                  IN  IF hints # <<>>
                      THEN LET food == get(hints[1], "food", <<>>)
                               nutr == get(food, "nutrients", <<>>)
                           IN  Returned(_format_response(
                                 ("calories" :> get(nutr, "ENERC_KCAL", None)
                                  @@ "carbohydrates" :> get(nutr, "CHOCDF", None)
                                  @@ "fat" :> get(nutr, "FAT", None)
                                  @@ "protein" :> get(nutr, "PROCNT", None)
                                  @@ "sugars" :> get(nutr, "SUGAR", None)
                                  @@ "product_name" :> get(food, "label", None)),
                                 "edamam"))
                      ELSE Returned(NoneDict)
    ELSE Returned(NoneDict)

\* NutritionAPI.fetch_from_edamam_vision
fetch_from_edamam_vision(self, image_bytes, resp) ==
    IF ~self.edamam
    THEN Returned(NoneDict)
    ELSE IF resp.exc
    THEN Returned(NoneDict)
    ELSE IF resp.status_code = 200
    THEN LET j == resp_json(resp)
         IN  IF j.raised \/ ~j.is_dict
             THEN Raised
             ELSE LET ingredients == get(j.obj, "ingredients", << <<>> >>)
                  IN  IF ingredients = <<>>
                      THEN Raised        \* [][0]: IndexError
                      ELSE LET foods == get(ingredients[1], "parsed", <<>>)
                           IN  IF foods # <<>>
                               THEN LET nutr == get(foods[1], "nutrients", <<>>)
                                    IN  Returned(_format_response(
                                          ("calories" :> get(nutr, "ENERC_KCAL", None)
                                           @@ "carbohydrates" :> get(nutr, "CHOCDF", None)
                                           @@ "fat" :> get(nutr, "FAT", None)
                                           @@ "protein" :> get(nutr, "PROCNT", None)
                                           @@ "sugars" :> get(nutr, "SUGAR", None)
                                           @@ "product_name" :> get(foods[1], "food", None)),
                                          "edamam_vision"))
                               ELSE Returned(NoneDict)
    ELSE Returned(NoneDict)

\* NutritionAPI.fetch_from_nutritionix
fetch_from_nutritionix(self, query, resp) ==
    IF ~self.nutritionix
    THEN Returned(NoneDict)
    ELSE IF resp.exc
    THEN Returned(NoneDict)
    ELSE IF resp.status_code = 200
    THEN LET j == resp_json(resp)
         IN  IF j.raised \/ ~j.is_dict
             THEN Raised
             ELSE LET items == get(j.obj, "foods", <<>>)
                  IN  IF items # <<>>
                      THEN LET item == items[1]
                           IN  Returned(_format_response(
                                 ("calories" :> get(item, "nf_calories", None)
                                  @@ "carbohydrates" :>
                                       get(item, "nf_total_carbohydrate", None)
                                  @@ "fat" :> get(item, "nf_total_fat", None)
                                  @@ "protein" :> get(item, "nf_protein", None)
                                  @@ "sugars" :> get(item, "nf_sugars", None)
                                  @@ "product_name" :> get(item, "food_name", None)),
                                 "nutritionix"))
                      ELSE Returned(NoneDict)
    ELSE Returned(NoneDict)

---------------------------------------------------------------------------
(* NutritionAPI.get_nutrition: the loop over the sources, one iteration    *)
(* (with the adapter's HTTP request, if it makes one) per step             *)

SourceIds ==
    {"openfoodfacts", "fooddata", "edamam", "edamam_vision", "nutritionix",
     "usda_local"}      \* the last names no adapter

default_sources == <<"openfoodfacts", "fooddata", "edamam", "nutritionix">>

\* preferred_sources or [...]
effective_sources(preferred_sources) ==
    IF preferred_sources.is_none \/ preferred_sources.items = <<>>
    THEN default_sources
    ELSE preferred_sources.items

\* the adapter is selected by the source id alone, whatever the inputs
adapter_for_unguarded(source, barcode, query, image_bytes) ==
    IF source \in {"openfoodfacts", "fooddata", "edamam", "edamam_vision",
                   "nutritionix"}
    THEN source
    ELSE "none"

\* the if/elif chain of the loop body: the adapter the source selects, if any
adapter_for(source, barcode, query, image_bytes) ==
    IF source = "openfoodfacts" /\ truthy_str(barcode) THEN "openfoodfacts"
    ELSE IF source = "fooddata" /\ truthy_str(query) THEN "fooddata"
    ELSE IF source = "edamam" /\ truthy_str(query) THEN "edamam"
    ELSE IF source = "edamam_vision" /\ truthy_str(image_bytes) THEN "edamam_vision"
    ELSE IF source = "nutritionix" /\ truthy_str(query) THEN "nutritionix"
    ELSE "none"

\* no adapter looks at its credentials before the request
makes_request_always(self, adapter) == adapter # "none"

\* whether the adapter gets as far as its HTTP request
makes_request(self, adapter) ==
    CASE adapter = "openfoodfacts" -> TRUE
      [] adapter = "fooddata" -> self.fooddata_key
      [] adapter \in {"edamam", "edamam_vision"} -> self.edamam
      [] adapter = "nutritionix" -> self.nutritionix
      [] OTHER -> FALSE

NoRequest == [label |-> "no_request", exc |-> TRUE]

ResponsesOf(adapter) ==
    CASE adapter = "openfoodfacts" -> OpenFoodFactsResponses
      [] adapter = "fooddata" -> FoodDataResponses
      [] adapter = "edamam" -> EdamamResponses
      [] adapter = "edamam_vision" -> EdamamVisionResponses
      [] adapter = "nutritionix" -> NutritionixResponses
      [] OTHER -> {}

call_adapter(self, adapter, barcode, query, image_bytes, resp) ==
    CASE adapter = "openfoodfacts" -> fetch_from_openfoodfacts(barcode, resp)
      [] adapter = "fooddata" -> fetch_from_fooddata(self, query, resp)
      [] adapter = "edamam" -> fetch_from_edamam(self, query, resp)
      [] adapter = "edamam_vision" ->
            fetch_from_edamam_vision(self, image_bytes, resp)
      [] adapter = "nutritionix" -> fetch_from_nutritionix(self, query, resp)
      [] OTHER -> Returned(NoneDict)

\* absence reported as zeros
no_data_zeroed ==
    [source |-> None,
     raw |-> ("calories" :> "0" @@ "carbohydrates" :> "0" @@ "fat" :> "0"
              @@ "protein" :> "0" @@ "sugars" :> "0")]

\* return {"source": None, "raw": None}
no_data == [source |-> None, raw |-> NoneDict]

\* the loop keeps the last result it saw instead of returning the first
loop_body_keep_going(call, r, entry) ==
    IF r.raised
    THEN [call EXCEPT !.state = "raised", !.calls = Append(@, entry)]
    ELSE IF call.i = Len(call.sources)
    THEN [call EXCEPT !.state = "returned", !.calls = Append(@, entry),
                      !.result = IF truthy_dict(r.value) THEN r.value
                                 ELSE IF call.result = NoneDict THEN no_data
                                 ELSE call.result]
    ELSE [call EXCEPT !.i = @ + 1, !.calls = Append(@, entry),
                      !.result = IF truthy_dict(r.value) THEN r.value ELSE @]

\* the loop gives up after the first source that has no result
loop_body_no_fallback(call, r, entry) ==
    IF r.raised
    THEN [call EXCEPT !.state = "raised", !.calls = Append(@, entry)]
    ELSE [call EXCEPT !.state = "returned", !.calls = Append(@, entry),
                      !.result = IF truthy_dict(r.value) THEN r.value
                                 ELSE no_data]

\* a source without a result is asked again
loop_body_retry(call, r, entry) ==
    IF r.raised
    THEN [call EXCEPT !.state = "raised", !.calls = Append(@, entry)]
    ELSE IF truthy_dict(r.value)
    THEN [call EXCEPT !.state = "returned", !.calls = Append(@, entry),
                      !.result = r.value]
    ELSE IF Len(call.calls) >= Len(call.sources)
    THEN [call EXCEPT !.state = "returned", !.calls = Append(@, entry),
                      !.result = no_data]
    ELSE [call EXCEPT !.calls = Append(@, entry)]

\* what one iteration does with the adapter's outcome r: propagate its
\* exception, return its result, go on, or fall out of the loop
loop_body(call, r, entry) ==
    IF r.raised
    THEN [call EXCEPT !.state = "raised", !.calls = Append(@, entry)]
    ELSE IF truthy_dict(r.value)
    THEN [call EXCEPT !.state = "returned", !.calls = Append(@, entry),
                      !.result = r.value]
    ELSE IF call.i = Len(call.sources)
    THEN [call EXCEPT !.state = "returned", !.calls = Append(@, entry),
                      !.result = no_data]
    ELSE [call EXCEPT !.i = @ + 1, !.calls = Append(@, entry)]

Barcodes == {None, "", "737628064502"}
Queries == {None, "apple"}
Images == {None, "jpeg-bytes"}

InitNutrition ==
    /\ graph_unused
    /\ engine_unused
    /\ history_unused
    /\ clock = 0
    /\ camera_unused
    /\ api \in [fooddata_key : BOOLEAN, edamam : BOOLEAN, nutritionix : BOOLEAN]
    /\ gn = NoNutritionCall

\* a caller enters get_nutrition
get_nutrition ==
    /\ gn.state = "idle"
    /\ \E barcode \in Barcodes, query \in Queries, image_bytes \in Images,
          preferred_sources \in
             {[is_none |-> TRUE, items |-> <<>>]} \cup
             {[is_none |-> FALSE, items |-> l] : l \in SeqsUpTo(SourceIds, MaxSources)} :
          gn' = [state |-> "running", barcode |-> barcode, query |-> query,
                 image_bytes |-> image_bytes,
                 preferred_sources |-> preferred_sources,
                 sources |-> effective_sources(preferred_sources),
                 i |-> 1, calls |-> <<>>, result |-> NoneDict]
    /\ UNCHANGED <<api, outside_nutrition>>

\* one iteration of `for source in sources`
get_nutrition_source ==
    /\ gn.state = "running"
    /\ LET source == gn.sources[gn.i]
           adapter == adapter_for(source, gn.barcode, gn.query, gn.image_bytes)
           resps == IF makes_request(api, adapter)
                    THEN ResponsesOf(adapter) ELSE {NoRequest}
       IN  \E resp \in resps :
              LET r == call_adapter(api, adapter, gn.barcode, gn.query,
                                    gn.image_bytes, resp)
                  entry == [source |-> source, adapter |-> adapter,
                            response |-> resp.label,
                            outcome |-> IF adapter = "none" THEN "skipped"
                                        ELSE IF r.raised THEN "raised"
                                        ELSE IF truthy_dict(r.value) THEN "data"
                                        ELSE "none"]
              IN  gn' = loop_body(gn, r, entry)
    /\ UNCHANGED <<api, outside_nutrition>>

\* the caller has taken the result (or the exception)
get_nutrition_done ==
    /\ gn.state \in {"returned", "raised"}
    /\ gn' = NoNutritionCall
    /\ UNCHANGED <<api, outside_nutrition>>

NextNutrition == get_nutrition \/ get_nutrition_source \/ get_nutrition_done

SpecNutrition == InitNutrition /\ [][NextNutrition]_vars

---------------------------------------------------------------------------
(* Claims about the nutrition resolver *)

NormalisedData(calories, carbs, fat, protein, sugar, product_name, source) ==
    [source |-> source, calories |-> calories, carbs |-> carbs, fat |-> fat,
     protein |-> protein, sugar |-> sugar,
     raw |-> ("calories" :> calories @@ "carbohydrates" :> carbs @@ "fat" :> fat
              @@ "protein" :> protein @@ "sugars" :> sugar
              @@ "product_name" :> product_name)]

\* the data each provider's "data" answer carries, in the common schema
DataOf(adapter) ==
    CASE adapter = "openfoodfacts" ->
            NormalisedData("52", "14", "0", "1", "10", "Apple juice", adapter)
      [] adapter = "fooddata" ->
            NormalisedData("52", None, None, "1", "10", "APPLE", adapter)
      [] adapter = "edamam" ->
            NormalisedData("52", "14", "0", "1", "10", "Apple", adapter)
      [] adapter = "edamam_vision" ->
            NormalisedData("52", "14", "0", "1", "10", "apple", adapter)
      [] adapter = "nutritionix" ->
            NormalisedData("52", "14", "0", "1", "10", "apple", adapter)

\* C8: the sources are tried in the order of the source list, and a call
\* that returns data returns the data of the first source in that order that
\* yielded a result, with 'source' equal to that provider's id
C8_FirstSourceWithDataWins ==
    /\ Len(gn.calls) <= Len(gn.sources)
    /\ \A k \in 1..Len(gn.calls) :
          /\ gn.calls[k].source = gn.sources[k]
          /\ k < Len(gn.calls) => gn.calls[k].outcome \in {"skipped", "none"}
    /\ \A k \in 1..Len(gn.calls) :
          gn.calls[k].outcome = "data" =>
            /\ gn.state = "returned"
            /\ gn.result = DataOf(gn.sources[k])
            /\ gn.result.source = gn.sources[k]
    /\ (gn.state = "returned" /\ gn.result.source # None) =>
          gn.calls[Len(gn.calls)].outcome = "data"

C8_Witness ==
    /\ gn.state = "returned"
    /\ gn.preferred_sources =
          [is_none |-> FALSE, items |-> <<"nutritionix", "openfoodfacts", "edamam">>]
    /\ Len(gn.calls) = 3
    /\ gn.calls[1].response = "non200"
    /\ gn.calls[2].response = "empty"
    /\ gn.result.source = "edamam"
    /\ gn.result.raw["product_name"] = "Apple"

\* C9: when every source of the order returned no result or was skipped, the
\* call returns (it does not raise) the no-data payload: source None, raw None
\* and no nutrient value; and a returned source of None always comes with it
C9_TotalFailureGivesNoData ==
    /\ (/\ gn.state # "idle"
        /\ Len(gn.calls) = Len(gn.sources)
        /\ \A k \in 1..Len(gn.calls) :
              gn.calls[k].outcome \in {"skipped", "none"})
       => /\ gn.state = "returned"
          /\ gn.result = [source |-> None, raw |-> NoneDict]
    /\ (gn.state = "returned" /\ gn.result.source = None)
       => /\ gn.result = [source |-> None, raw |-> NoneDict]
          /\ Len(gn.calls) = Len(gn.sources)

C9_Witness ==
    /\ gn.state = "returned"
    /\ gn.preferred_sources =
          [is_none |-> FALSE, items |-> <<"openfoodfacts", "fooddata", "usda_local">>]
    /\ gn.calls[1].response = "non200"
    /\ gn.calls[2].response = "exception"
    /\ gn.calls[3].outcome = "skipped"
    /\ gn.result.source = None

Malformed == {"not_json", "json_array", "empty_ingredients"}

\* C10: an HTTP 200 answer the adapter cannot parse (a body that is not
\* JSON, JSON of an unexpected shape) counts as no result: the adapter does
\* not raise and get_nutrition goes on to the next source
C10_MalformedResponseIsNoResult ==
    /\ gn.state # "raised"
    /\ \A k \in 1..Len(gn.calls) :
          gn.calls[k].response \in Malformed => gn.calls[k].outcome = "none"


TransientFailure == {"exception", "non200"}

\* C11: a network failure (the HTTP call raises) or a non-200 status in any
\* adapter becomes "no result" inside the adapter: get_nutrition does not see
\* an exception for it and goes on to the next source of the order, or, after
\* the last source, returns the no-data payload
C11_TransientFailureIsNoResult ==
    \A k \in 1..Len(gn.calls) :
       gn.calls[k].response \in TransientFailure =>
          /\ gn.calls[k].outcome = "none"
          /\ (k = Len(gn.calls) /\ k < Len(gn.sources)) =>
                (gn.state = "running" /\ gn.i = k + 1)
          /\ (k = Len(gn.calls) /\ k = Len(gn.sources)) =>
                (gn.state = "returned" /\ gn.result = no_data)
          /\ k < Len(gn.calls) => gn.calls[k + 1].source = gn.sources[k + 1]

C11_Witness ==
    /\ gn.state = "returned"
    /\ gn.preferred_sources = [is_none |-> TRUE, items |-> <<>>]
    /\ Len(gn.calls) = 4
    /\ gn.calls[1].response = "exception"
    /\ gn.calls[2].response = "non200"
    /\ gn.calls[3].response = "exception"
    /\ gn.calls[4].response = "data"
    /\ gn.result.source = "nutritionix"


Supplied(x) == x # None /\ x # ""

QueryAdapters == {"fooddata", "edamam", "nutritionix"}

KnownSources ==
    {"openfoodfacts", "fooddata", "edamam", "edamam_vision", "nutritionix"}

\* C18: get_nutrition calls an adapter only when the input it accepts was
\* supplied (openfoodfacts a barcode, fooddata/edamam/nutritionix a query,
\* edamam_vision image bytes), and only the adapter its source id names; a
\* source id that names no adapter is skipped without error
C18_AdapterOnlyWithItsInput ==
    \A k \in 1..Len(gn.calls) :
       LET c == gn.calls[k]
       IN  /\ c.outcome # "skipped" =>
                /\ c.adapter = c.source
                /\ c.adapter = "openfoodfacts" => Supplied(gn.barcode)
                /\ c.adapter \in QueryAdapters => Supplied(gn.query)
                /\ c.adapter = "edamam_vision" => Supplied(gn.image_bytes)
           /\ c.source \notin KnownSources =>
                /\ c.outcome = "skipped"
                /\ c.response = "no_request"
                /\ k = Len(gn.calls) =>
                      IF k < Len(gn.sources)
                      THEN gn.state = "running" /\ gn.i = k + 1
                      ELSE gn.state = "returned" /\ gn.result = no_data

C18_Witness ==
    /\ gn.state = "returned"
    /\ gn.barcode = None
    /\ gn.query = "apple"
    /\ gn.preferred_sources =
          [is_none |-> FALSE, items |-> <<"usda_local", "openfoodfacts", "fooddata">>]
    /\ gn.calls[1].outcome = "skipped"
    /\ gn.calls[2].outcome = "skipped"
    /\ gn.calls[3].adapter = "fooddata"
    /\ gn.calls[3].outcome = "data"

\* C19: get_nutrition stops at the first adapter that returns a non-empty
\* result: after it no further adapter is called in that resolution, and
\* every step of the resolution makes at most one adapter call, for the next
\* entry of the source list
C19_StopsAtFirstResult ==
    [][(gn'.calls # gn.calls /\ gn'.calls # <<>>) =>
          /\ Len(gn'.calls) = Len(gn.calls) + 1
          /\ SubSeq(gn'.calls, 1, Len(gn.calls)) = gn.calls
          /\ Len(gn'.calls) <= Len(gn.sources)
          /\ gn'.calls[Len(gn'.calls)].source = gn.sources[Len(gn'.calls)]
          /\ \A k \in 1..Len(gn.calls) : gn.calls[k].outcome # "data"
          /\ gn'.calls[Len(gn'.calls)].outcome = "data" =>
                (gn'.state = "returned" /\ gn'.result.source = gn'.calls[Len(gn'.calls)].source)]_vars

C19_Witness ==
    /\ gn.state = "returned"
    /\ gn.preferred_sources = [is_none |-> TRUE, items |-> <<>>]
    /\ Len(gn.calls) = 2
    /\ gn.calls[1].outcome = "none"
    /\ gn.calls[2].outcome = "data"
    /\ gn.result.source = "fooddata"

CredentialOf(adapter) ==
    CASE adapter = "fooddata" -> api.fooddata_key
      [] adapter \in {"edamam", "edamam_vision"} -> api.edamam
      [] adapter = "nutritionix" -> api.nutritionix
      [] OTHER -> TRUE

\* C20: an adapter whose credentials are unset (fooddata, edamam,
\* edamam_vision, nutritionix) returns None without raising and without an
\* external call, and get_nutrition goes on to the next source or, after the
\* last one, returns the no-data payload
C20_MissingCredentialsIsNoResult ==
    \A k \in 1..Len(gn.calls) :
       (gn.calls[k].outcome # "skipped" /\ ~CredentialOf(gn.calls[k].adapter)) =>
          /\ gn.calls[k].response = "no_request"
          /\ gn.calls[k].outcome = "none"
          /\ k = Len(gn.calls) =>
                IF k < Len(gn.sources)
                THEN gn.state = "running" /\ gn.i = k + 1
                ELSE gn.state = "returned" /\ gn.result = no_data
          /\ k < Len(gn.calls) => gn.calls[k + 1].source = gn.sources[k + 1]

C20_Witness ==
    /\ api = NoApi
    /\ gn.state = "returned"
    /\ gn.query = "apple"
    /\ gn.image_bytes = "jpeg-bytes"
    /\ gn.preferred_sources =
          [is_none |-> FALSE, items |-> <<"edamam_vision", "nutritionix", "fooddata">>]
    /\ Len(gn.calls) = 3
    /\ \A k \in 1..3 : gn.calls[k].response = "no_request"
    /\ \A k \in 1..3 : gn.calls[k].outcome = "none"
    /\ gn.result = no_data

\* preferred_sources, or the default order when it is None or empty
EffectiveOrder ==
    IF gn.preferred_sources.is_none \/ gn.preferred_sources.items = <<>>
    THEN <<"openfoodfacts", "fooddata", "edamam", "nutritionix">>
    ELSE gn.preferred_sources.items

\* C27: for every call of get_nutrition that returns, the returned source is
\* null or a member of the effective source order, raw is null exactly when
\* the source is null, and a non-null source is the id of the adapter whose
\* data is returned
C27_ReturnedSourceInOrder ==
    gn.state = "returned" =>
       /\ \/ gn.result.source = None
          \/ \E k \in 1..Len(EffectiveOrder) : EffectiveOrder[k] = gn.result.source
       /\ gn.result.raw = NoneDict <=> gn.result.source = None
       /\ gn.result.source # None =>
             LET last == gn.calls[Len(gn.calls)]
             IN  /\ last.outcome = "data"
                 /\ last.adapter = gn.result.source
                 /\ last.source = gn.result.source
                 /\ gn.result.raw = DataOf(last.adapter).raw

C27_Witness ==
    /\ gn.state = "returned"
    /\ gn.preferred_sources =
          [is_none |-> FALSE, items |-> <<"usda_local", "edamam_vision">>]
    /\ gn.result.source = "edamam_vision"
    /\ gn.result.raw # NoneDict
    /\ gn.result.raw["product_name"] = "apple"

---------------------------------------------------------------------------
(* services/engine.py: the vision providers and their fallback chain *)

s_gemini == <<"g","e","m","i","n","i">>
s_openai == <<"o","p","e","n","a","i">>
s_mock == <<"m","o","c","k">>
s_Gemini == <<"G","e","m","i","n","i">>
s_OPENAI == <<"O","P","E","N","A","I">>
s_claude == <<"c","l","a","u","d","e">>

s_gemini_key_missing ==
    <<"G","E","M","I","N","I","_","A","P","I","_","K","E","Y"," ",
      "i","s"," ","m","i","s","s","i","n","g">>
s_openai_key_missing ==
    <<"O","P","E","N","A","I","_","A","P","I","_","K","E","Y"," ",
      "i","s"," ","m","i","s","s","i","n","g">>
s_gemini_not_installed ==
    <<"g","o","o","g","l","e","-","g","e","n","e","r","a","t","i","v","e","a","i",
      " ","i","s"," ","n","o","t"," ","i","n","s","t","a","l","l","e","d">>
s_openai_not_installed ==
    <<"o","p","e","n","a","i"," ","i","s"," ","n","o","t"," ",
      "i","n","s","t","a","l","l","e","d">>
s_quota_exceeded ==
    <<"4","2","9"," ","q","u","o","t","a"," ","e","x","c","e","e","d","e","d">>
s_not_subscriptable ==
    <<"'","N","o","n","e","T","y","p","e","'"," ","o","b","j","e","c","t"," ",
      "i","s"," ","n","o","t"," ","s","u","b","s","c","r","i","p","t","a","b","l","e">>
s_braces == <<"{","}">>
s_High_sugar == <<"H","i","g","h"," ","s","u","g","a","r">>
s_Moderate_sodium == <<"M","o","d","e","r","a","t","e"," ","s","o","d","i","u","m">>
s_No_provider_succeeded ==
    <<"N","o"," ","p","r","o","v","i","d","e","r"," ",
      "s","u","c","c","e","e","d","e","d">>
s_Cola_sugary == <<"C","o","l","a",","," ","s","u","g","a","r","y">>

\* the provider order built without lower-casing the preferred provider
_build_provider_order_case_sensitive(preferred) ==
    LET order0 == IF preferred \in {s_gemini, s_openai} THEN <<preferred>> ELSE <<>>
        order1 == IF preferred # s_gemini THEN Append(order0, s_gemini) ELSE order0
        order2 == IF preferred # s_openai THEN Append(order1, s_openai) ELSE order1
    IN  Append(order2, s_mock)

\* _build_provider_order
_build_provider_order(preferred) ==
    LET p == lower(preferred)
        order0 == IF p \in {s_gemini, s_openai} THEN <<p>> ELSE <<>>
        order1 == IF p # s_gemini THEN Append(order0, s_gemini) ELSE order0
        order2 == IF p # s_openai THEN Append(order1, s_openai) ELSE order1
    IN  Append(order2, s_mock)

\* what a provider call produces: a result dict, or an exception
Analysis(product, health_score, verdict, warnings) ==
    [product |-> product, health_score |-> health_score, verdict |-> verdict,
     warnings |-> warnings]
NoAnalysis == Analysis("None", 0, "None", <<>>)
Result(value) == [raised |-> FALSE, class |-> "None", message |-> <<>>, value |-> value]
Raise(class, message) ==
    [raised |-> TRUE, class |-> class, message |-> message, value |-> NoAnalysis]

\* s[:n]
slice_to(str, n) == SubSeq(str, 1, IF Len(str) < n THEN Len(str) ELSE n)

\* what the provider's SDK does once the key is there: the import fails, the
\* request fails, or a response arrives (its text may be empty or None)
SdkOutcome(kind, text) == [kind |-> kind, text |-> text]
SdkOutcomes ==
    {SdkOutcome("not_installed", <<>>), SdkOutcome("api_error", <<>>),
     SdkOutcome("no_text", <<>>), SdkOutcome("ok", s_Cola_sugary)}

\* _analyze_with_gemini
_analyze_with_gemini(sdk) ==
    IF ~keys.gemini
    THEN Raise("RuntimeError", s_gemini_key_missing)
    ELSE IF sdk.kind = "not_installed"
    THEN Raise("RuntimeError", s_gemini_not_installed)
    ELSE IF sdk.kind = "api_error"
    THEN Raise("Exception", s_quota_exceeded)
    ELSE LET text == IF sdk.text = <<>> THEN s_braces ELSE sdk.text
         IN  Result(Analysis("Gemini Vision", 80, "SAFE", <<slice_to(text, 180)>>))

\* _analyze_with_openai
_analyze_with_openai(sdk) ==
    IF ~keys.openai
    THEN Raise("RuntimeError", s_openai_key_missing)
    ELSE IF sdk.kind = "not_installed"
    THEN Raise("RuntimeError", s_openai_not_installed)
    ELSE IF sdk.kind = "api_error"
    THEN Raise("Exception", s_quota_exceeded)
    ELSE IF sdk.kind = "no_text"
    THEN Raise("TypeError", s_not_subscriptable)      \* None[:180]
    ELSE Result(Analysis("OpenAI Vision", 78, "SAFE", <<slice_to(sdk.text, 180)>>))

\* _mock_analysis
_mock_analysis ==
    Result(Analysis("Mock Snack", 72, "WARNING", <<s_High_sugar, s_Moderate_sodium>>))


\* an except clause that handles only the missing-key RuntimeError
caught_runtime_error_only(class) == class = "RuntimeError"

\* except Exception: every exception class the providers raise derives from it
caught(class) == class \in {"Exception", "RuntimeError", "TypeError"}

\* f"{provider}: {exc}"
error_string(provider, message) == provider \o <<":", " ">> \o message

\* the dict returned after the loop
fallback_result(errors) ==
    Analysis("Unknown", 50, "WARNING",
             IF errors # <<>> THEN errors ELSE <<s_No_provider_succeeded>>)

\* `continue`, or the end of the for loop
next_provider(call) ==
    IF call.i = Len(call.order)
    THEN [call EXCEPT !.state = "returned", !.result = fallback_result(call.errors)]
    ELSE [call EXCEPT !.i = @ + 1]

\* the mock result returned as it is, the collected errors dropped
mock_branch_drops_errors(call) ==
    [call EXCEPT !.state = "returned", !.result = _mock_analysis.value,
                 !.attempts = Append(@, [provider |-> s_mock, failed |-> FALSE,
                                         message |-> <<>>])]

\* the `if provider == "mock"` branch of analyze_image
mock_branch(call) ==
    LET result == _mock_analysis.value
    IN  [call EXCEPT !.state = "returned",
                     !.result = IF call.errors # <<>>
                                THEN [result EXCEPT !.warnings = @ \o call.errors]
                                ELSE result,
                     !.attempts = Append(@, [provider |-> s_mock, failed |-> FALSE,
                                             message |-> <<>>])]

\* the gemini/openai branches with their except clause: r is what the
\* provider function returned or raised
real_branch(call, provider, r) ==
    IF ~r.raised
    THEN [call EXCEPT !.state = "returned", !.result = r.value,
                      !.attempts = Append(@, [provider |-> provider, failed |-> FALSE,
                                              message |-> <<>>])]
    ELSE IF caught(r.class)
    THEN next_provider(
           [call EXCEPT !.errors = Append(@, error_string(provider, r.message)),
                        !.attempts = Append(@, [provider |-> provider, failed |-> TRUE,
                                                message |-> r.message])])
    ELSE [call EXCEPT !.state = "raised",
                      !.attempts = Append(@, [provider |-> provider, failed |-> TRUE,
                                              message |-> r.message])]

PreferredProviders ==
    {s_gemini, s_openai, s_mock, s_Gemini, s_OPENAI, s_claude, s_empty}

InitEngine ==
    /\ graph_unused
    /\ nutrition_unused
    /\ history_unused
    /\ clock = 0
    /\ camera_unused
    /\ keys \in [gemini : BOOLEAN, openai : BOOLEAN]
    /\ ai = NoAnalyzeCall

\* a caller enters analyze_image
analyze_image ==
    /\ ai.state = "idle"
    /\ \E preferred_provider \in PreferredProviders :
          ai' = [NoAnalyzeCall EXCEPT
                   !.state = "running",
                   !.preferred_provider = preferred_provider,
                   !.order = _build_provider_order(preferred_provider),
                   !.i = 1]
    /\ UNCHANGED <<keys, outside_engine>>

\* the body of `for provider in _build_provider_order(...)`: the branch the
\* provider name selects; sdk is what that provider's SDK does if asked
loop_iteration(call, sdk) ==
    LET provider == call.order[call.i]
    IN  CASE provider = s_gemini ->
               real_branch(call, provider, _analyze_with_gemini(sdk))
          [] provider = s_openai ->
               real_branch(call, provider, _analyze_with_openai(sdk))
          [] provider = s_mock -> mock_branch(call)
          [] OTHER -> next_provider(call)

\* one iteration of the loop of analyze_image
analyze_image_provider ==
    /\ ai.state = "running"
    /\ \E sdk \in SdkOutcomes : ai' = loop_iteration(ai, sdk)
    /\ UNCHANGED <<keys, outside_engine>>

\* the caller has taken the result
analyze_image_done ==
    /\ ai.state \in {"returned", "raised"}
    /\ ai' = NoAnalyzeCall
    /\ UNCHANGED <<keys, outside_engine>>

NextEngine == analyze_image \/ analyze_image_provider \/ analyze_image_done

SpecEngine == InitEngine /\ [][NextEngine]_vars


---------------------------------------------------------------------------
(* Claims about the vision provider chain *)

RealProviders == {s_gemini, s_openai}

FailedAttempts(call) ==
    {k \in 1..Len(call.attempts) : call.attempts[k].failed}

AllRealProvidersFailed(call) ==
    /\ \E k \in 1..Len(call.attempts) : call.attempts[k].provider \in RealProviders
    /\ \A k \in 1..Len(call.attempts) :
          call.attempts[k].provider \in RealProviders => call.attempts[k].failed

\* C12: analyze_image degrades gracefully.  For every preferred provider and
\* every combination of provider failures the call returns, never raises,
\* with a verdict of SAFE, WARNING or DANGER; and when every real provider
\* that was attempted failed, the verdict is WARNING and the warnings list
\* is not empty and holds, for each failed provider, a string that contains
\* its failure reason
C12_DegradesGracefully ==
    /\ ai.state # "raised"
    /\ ai.state = "running" => ai.i \in 1..Len(ai.order)
    /\ ai.state = "returned" =>
          /\ ai.result.verdict \in {"SAFE", "WARNING", "DANGER"}
          /\ AllRealProvidersFailed(ai) =>
                /\ ai.result.verdict = "WARNING"
                /\ ai.result.warnings # <<>>
                /\ \A k \in FailedAttempts(ai) :
                      \E w \in 1..Len(ai.result.warnings) :
                         /\ str_in(ai.attempts[k].message, ai.result.warnings[w])
                         /\ str_in(ai.attempts[k].provider, ai.result.warnings[w])

C12_Witness ==
    /\ ai.state = "returned"
    /\ ai.preferred_provider = s_OPENAI
    /\ keys = [gemini |-> FALSE, openai |-> TRUE]
    /\ Len(ai.attempts) = 3
    /\ ai.attempts[1] = [provider |-> s_openai, failed |-> TRUE,
                         message |-> s_not_subscriptable]
    /\ ai.attempts[2] = [provider |-> s_gemini, failed |-> TRUE,
                         message |-> s_gemini_key_missing]
    /\ ai.result.verdict = "WARNING"
    /\ Len(ai.result.warnings) = 4

\* the '<provider>: <reason>' strings of the failed attempts of a call, in
\* attempt order
FailureStrings(call) ==
    LET Failed(a) == a.failed
        failed == SelectSeq(call.attempts, Failed)
    IN  [k \in 1..Len(failed) |->
            failed[k].provider \o <<":", " ">> \o failed[k].message]

\* the strings of part occur in whole, in the same order
OccursInOrder(part, whole) ==
    \E at \in [1..Len(part) -> 1..Len(whole)] :
       /\ \A k \in 1..Len(part) : whole[at[k]] = part[k]
       /\ \A j, k \in 1..Len(part) : j < k => at[j] < at[k]

\* C25: whenever analyze_image returns after one or more providers failed,
\* the returned warnings hold one '<provider>: <reason>' string per failed
\* provider, in attempt order, whichever provider produced the result
C25_FailuresSurfaced ==
    ai.state = "returned" => OccursInOrder(FailureStrings(ai), ai.result.warnings)

Occurrences(seq, x) == Cardinality({k \in 1..Len(seq) : seq[k] = x})

\* C26: for every preferred-provider string the provider order has the
\* preferred provider first when it is gemini or openai in any case, holds
\* gemini, openai and mock exactly once each and ends with mock; the
\* providers are attempted strictly in that order and the first success
\* ends the call
C26_ProviderOrder ==
    ai.state # "idle" =>
       /\ lower(ai.preferred_provider) \in RealProviders =>
             ai.order[1] = lower(ai.preferred_provider)
       /\ Occurrences(ai.order, s_gemini) = 1
       /\ Occurrences(ai.order, s_openai) = 1
       /\ Occurrences(ai.order, s_mock) = 1
       /\ Len(ai.order) = 3
       /\ ai.order[Len(ai.order)] = s_mock
       /\ Len(ai.attempts) <= Len(ai.order)
       /\ \A k \in 1..Len(ai.attempts) :
             /\ ai.attempts[k].provider = ai.order[k]
             /\ k < Len(ai.attempts) => ai.attempts[k].failed
             /\ ~ai.attempts[k].failed =>
                   (k = Len(ai.attempts) /\ ai.state = "returned")
       /\ ai.state = "running" => ai.i = Len(ai.attempts) + 1

C26_Witness ==
    /\ ai.state = "returned"
    /\ ai.preferred_provider = s_OPENAI
    /\ ai.order = <<s_openai, s_gemini, s_mock>>
    /\ Len(ai.attempts) = 2
    /\ ai.attempts[1].failed
    /\ ~ai.attempts[2].failed
    /\ ai.result.product = "Gemini Vision"


---------------------------------------------------------------------------
(* ui_components/camera_view.py: the conflict step of a scan *)

s_Wheat_Flour == <<"W","h","e","a","t"," ","F","l","o","u","r">>
s_glucose == <<"g","l","u","c","o","s","e">>
s_warning_sign == <<"U+26A0", "U+FE0F", " ">>       \* the two code points of the sign
s_may_affect == <<" ","m","a","y"," ","a","f","f","e","c","t"," ">>

\* GraphEngine().find_hidden_conflicts(ingredients, medical_conditions,
\* allergies): ConflictGraph.find_conflicts over the conditions and the
\* allergies of the user, on the seeded graph
find_hidden_conflicts(G, ingredients, medical_conditions, allergies) ==
    find_conflicts_in_graph(G, ingredients, medical_conditions \o allergies).conflicts

\* f"(sign) {c['ingredient']} may affect {c['health_condition']}"
conflict_warning(c) ==
    s_warning_sign \o c.ingredient \o s_may_affect \o c.health_condition

\* one warning for every match, without the cap
conflict_warnings_uncapped(matches) ==
    [k \in 1..Len(matches) |-> conflict_warning(matches[k])]

\* [f"..." for c in conflicts[:3]]
conflict_warnings(matches) ==
    LET first == slice_to(matches, 3)
    IN  [k \in 1..Len(first) |-> conflict_warning(first[k])]

\* the conflict step that replaces the oracle's warnings by its own
conflict_step_replaces_warnings(G, result, profile) ==
    IF profile.found /\ truthy_str(result.product)
    THEN LET ingredients == IF result.has_ingredients THEN result.ingredients ELSE <<>>
             matches == find_hidden_conflicts(G, ingredients,
                            profile.medical_conditions, profile.allergies)
         IN  IF matches # <<>>
             THEN [result EXCEPT !.health_conflicts = matches,
                                 !.warnings = conflict_warnings(matches)]
             ELSE result
    ELSE result

\* lines 868-890: `if user_profile and result.get("product")` ...
conflict_step(G, result, profile) ==
    IF profile.found /\ truthy_str(result.product)
    THEN LET ingredients == IF result.has_ingredients THEN result.ingredients ELSE <<>>
             matches == find_hidden_conflicts(G, ingredients,
                            profile.medical_conditions, profile.allergies)
         IN  IF matches # <<>>
             THEN [result EXCEPT !.health_conflicts = matches,
                                 !.warnings = @ \o conflict_warnings(matches)]
             ELSE result
    ELSE result

\* prepare_nutrition_result(snapshot, result): the snapshot's raw nutrients
\* and source id merged into the result
prepare_nutrition_result(snapshot, result) ==
    [result EXCEPT !.nutrients = snapshot.raw, !.data_source = snapshot.source]

\* lines 910-912
merge_step(snapshot, result) ==
    IF truthy_dict(snapshot) THEN prepare_nutrition_result(snapshot, result) ELSE result


---------------------------------------------------------------------------
(* ui_components/camera_view.py: LiveVisionProcessor.recv and the script   *)
(* runs of _render_camera_inner                                            *)

MaxClock == 4               \* ticks of the clock the model follows
analysis_cooldown == 3      \* LiveVisionProcessor.analysis_cooldown, seconds
display_delay == 2          \* time.sleep(2) before the status is reset

Profile(medical_conditions, allergies) ==
    [found |-> TRUE, medical_conditions |-> medical_conditions,
     allergies |-> allergies]

\* the users row of the session's user, if there is one
Profiles ==
    {NoProfile,
     Profile(<<s_Diabetes>>, <<>>),
     Profile(<<s_Diabetes, s_hypertension>>, <<s_glucose, s_pressure>>)}

\* the optional `ingredients` of the oracle's mapping
OracleIngredients ==
    {[has |-> FALSE, items |-> <<>>],
     [has |-> TRUE, items |-> <<s_Sugar, s_Wheat_Flour>>],
     [has |-> TRUE, items |-> <<s_Sugar, s_Sodium_padded>>]}

\* what the barcode scanner reports for a frame
BarcodeScans ==
    {NoBarcode, [barcode |-> "737628064502", name |-> "apple"]}

\* st.session_state.preferred_sources, as configured
ConfiguredSources == {<<"openfoodfacts", "nutritionix">>}

\* init_camera_session_state and lines 686-693
InitCamera ==
    /\ graph = _populate_health_graph
    /\ populate_i = Len(conflicts) + 1
    /\ fc = NoFindCall
    /\ inserts = conflicts
    /\ singleton_unused
    /\ api = [fooddata_key |-> TRUE, edamam |-> TRUE, nutritionix |-> TRUE]
    /\ gn = NoNutritionCall
    /\ keys \in {NoKeys, [gemini |-> TRUE, openai |-> FALSE]}
    /\ ai = NoAnalyzeCall
    /\ history_unused
    /\ clock = 0
    /\ \E sources \in ConfiguredSources :
          session = [scan_status |-> "searching",
                     pending_analysis_frame |-> [present |-> FALSE, frame |-> 0],
                     pending_analysis_bbox |-> FALSE,
                     last_nutrition_snapshot |-> NoneDict,
                     last_barcode |-> NoBarcode,
                     preferred_sources |-> sources]
    /\ processor = NoProcessor
    /\ user_profile \in Profiles
    /\ run = NoRun

\* time passes
tick ==
    /\ clock < MaxClock
    /\ clock' = clock + 1
    /\ UNCHANGED <<graph_vars, api, gn, keys, ai, history_vars, camera_vars>>

\* recv captures whenever a detection is there, cooldown or not
cooldown_ignored(last_analysis_time, now) == TRUE

\* whether the cooldown lets recv capture at time now
cooldown_passed(last_analysis_time, now) ==
    last_analysis_time.is_none \/ now - last_analysis_time.t > analysis_cooldown

\* LiveVisionProcessor.recv for one frame: detections is what process_frame
\* found, scan what the barcode scan of every 30th frame found (skipped on
\* the other frames)
recv ==
    /\ \E detections \in BOOLEAN, scan \in {[skipped |-> TRUE]} \cup BarcodeScans :
          LET now == clock
              capture == /\ detections
                         /\ cooldown_passed(processor.last_analysis_time, now)
                         /\ ~session.pending_analysis_frame.present
          IN  /\ processor' =
                    [processor EXCEPT
                       !.current_detections = detections,
                       !.barcode_data = IF scan \in BarcodeScans THEN scan ELSE @,
                       !.last_analysis_time =
                           IF capture THEN [is_none |-> FALSE, t |-> now] ELSE @]
              /\ session' =
                    IF capture
                    THEN [session EXCEPT
                            !.pending_analysis_frame = [present |-> TRUE, frame |-> now],
                            !.pending_analysis_bbox = TRUE]
                    ELSE session
    /\ UNCHANGED <<graph_vars, api, gn, keys, ai, history_vars, clock,
                   user_profile, run>>


\* nutrition_client.get_nutrition(barcode=..., query=..., preferred_sources=
\* _get_preferred_sources(region)) entered
nutrition_call(barcode, query, sources) ==
    [state |-> "running", barcode |-> barcode, query |-> query,
     image_bytes |-> None,
     preferred_sources |-> [is_none |-> FALSE, items |-> sources],
     sources |-> effective_sources([is_none |-> FALSE, items |-> sources]),
     i |-> 1, calls |-> <<>>, result |-> NoneDict]

\* `if snapshot.get("source"): st.session_state.last_nutrition_snapshot = snapshot`
store_snapshot(sess, snapshot) ==
    IF truthy_str(snapshot.source)
    THEN [sess EXCEPT !.last_nutrition_snapshot = snapshot]
    ELSE sess

\* a script run starts with a pending frame in the session: lines 825-865,
\* up to the call of the oracle
scan_begin ==
    /\ run.pc = "idle"
    /\ session.pending_analysis_frame.present
    /\ \E allowed \in BOOLEAN :
          IF allowed
          THEN /\ session' = [session EXCEPT !.scan_status = "analyzing"]
               /\ run' = [NoRun EXCEPT !.pc = "oracle"]
               /\ ai' = [NoAnalyzeCall EXCEPT
                           !.state = "running",
                           !.preferred_provider = s_gemini,
                           !.order = _build_provider_order(s_gemini),
                           !.i = 1]
          ELSE /\ session' = [session EXCEPT
                                !.scan_status = "analyzing",
                                !.pending_analysis_frame =
                                    [present |-> FALSE, frame |-> 0]]
               /\ UNCHANGED <<run, ai>>
    /\ UNCHANGED <<graph_vars, api, gn, keys, history_vars, clock, processor,
                   user_profile>>

\* lines 905-920: the snapshot merged, the result saved, the status complete
complete_scan(sess, result) ==
    [session |-> [sess EXCEPT !.scan_status = "complete"],
     result |-> merge_step(sess.last_nutrition_snapshot, result)]

\* the resolver is asked whenever the oracle named a product
resolver_needed_whenever_product(sess, result) == truthy_str(result.product)

\* `if not st.session_state.last_nutrition_snapshot and result.get("product")`
resolver_needed(sess, result) ==
    ~truthy_dict(sess.last_nutrition_snapshot) /\ truthy_str(result.product)

\* the oracle has returned: lines 865-901, the conflict step and then either
\* the call of the nutrition resolver or the rest of the analysis
scan_oracle_returned ==
    /\ run.pc = "oracle"
    /\ ai.state = "returned"
    /\ \E ing \in OracleIngredients :
          LET oracle == [NoScanResult EXCEPT
                           !.product = ai.result.product,
                           !.health_score = ai.result.health_score,
                           !.verdict = ai.result.verdict,
                           !.warnings = ai.result.warnings,
                           !.has_ingredients = ing.has,
                           !.ingredients = ing.items]
              result == conflict_step(graph, oracle, user_profile)
          IN  IF resolver_needed(session, result)
              THEN /\ gn' = nutrition_call(None, result.product,
                                           session.preferred_sources)
                   /\ run' = [run EXCEPT !.pc = "nutrition", !.result = result,
                                         !.oracle_warnings = oracle.warnings]
                   /\ UNCHANGED session
              ELSE LET done == complete_scan(session, result)
                   IN  /\ session' = done.session
                       /\ run' = [run EXCEPT !.pc = "display",
                                             !.result = done.result,
                                             !.oracle_warnings = oracle.warnings]
                       /\ UNCHANGED gn
    /\ ai' = NoAnalyzeCall
    /\ UNCHANGED <<graph_vars, api, keys, history_vars, clock, processor,
                   user_profile>>

\* the resolver has returned or raised: lines 902-920
scan_nutrition_returned ==
    /\ run.pc = "nutrition"
    /\ gn.state \in {"returned", "raised"}
    /\ IF gn.state = "raised"
       THEN /\ run' = NoRun          \* the exception ends the script run
            /\ UNCHANGED session
       ELSE LET done == complete_scan(store_snapshot(session, gn.result), run.result)
            IN  /\ session' = done.session
                /\ run' = [run EXCEPT !.pc = "display", !.result = done.result]
    /\ gn' = NoNutritionCall
    /\ UNCHANGED <<graph_vars, api, keys, ai, history_vars, clock, processor,
                   user_profile>>

\* lines 1040-1046: the pending frame cleared, then the display delay (the
\* clock of the model stops at MaxClock, which stands for every later time)
scan_clear_pending ==
    /\ run.pc = "display"
    /\ session' = [session EXCEPT
                     !.pending_analysis_frame = [present |-> FALSE, frame |-> 0],
                     !.pending_analysis_bbox = FALSE]
    /\ run' = [run EXCEPT !.pc = "sleeping",
                          !.wake = Min(clock + display_delay, MaxClock)]
    /\ UNCHANGED <<graph_vars, api, gn, keys, ai, history_vars, clock, processor,
                   user_profile>>

\* lines 1047-1049: the status reset, the snapshot dropped, st.rerun()
scan_reset ==
    /\ run.pc = "sleeping"
    /\ clock >= run.wake
    /\ session' = [session EXCEPT !.scan_status = "searching",
                                  !.last_nutrition_snapshot = NoneDict]
    /\ run' = NoRun
    /\ UNCHANGED <<graph_vars, api, gn, keys, ai, history_vars, clock, processor,
                   user_profile>>

\* a script run without a pending frame: the manual capture button (lines
\* 1051-1070) and the barcode shown by the processor (lines 1072-1084)
render_controls ==
    /\ run.pc = "idle"
    /\ ~session.pending_analysis_frame.present
    /\ \E pressed \in BOOLEAN :
          LET status == IF pressed /\ processor.current_detections
                        THEN "detected" ELSE session.scan_status
              barcode_data == processor.barcode_data
          IN  IF barcode_data # NoBarcode /\ barcode_data # session.last_barcode
              THEN /\ session' = [session EXCEPT !.scan_status = status,
                                                 !.last_barcode = barcode_data]
                   /\ gn' = nutrition_call(barcode_data.barcode, barcode_data.name,
                                           session.preferred_sources)
                   /\ run' = [NoRun EXCEPT !.pc = "barcode"]
              ELSE /\ session' = [session EXCEPT !.scan_status = status]
                   /\ UNCHANGED <<gn, run>>
    /\ UNCHANGED <<graph_vars, api, keys, ai, history_vars, clock, processor,
                   user_profile>>

\* lines 1085-1086: the resolver called for the barcode has returned or raised
barcode_nutrition_returned ==
    /\ run.pc = "barcode"
    /\ gn.state \in {"returned", "raised"}
    /\ session' = IF gn.state = "returned"
                  THEN store_snapshot(session, gn.result) ELSE session
    /\ run' = NoRun
    /\ gn' = NoNutritionCall
    /\ UNCHANGED <<graph_vars, api, keys, ai, history_vars, clock, processor,
                   user_profile>>

NextCamera ==
    \/ tick
    \/ recv
    \/ scan_begin
    \/ analyze_image_provider
    \/ scan_oracle_returned
    \/ get_nutrition_source
    \/ scan_nutrition_returned
    \/ scan_clear_pending
    \/ scan_reset
    \/ render_controls
    \/ barcode_nutrition_returned

SpecCamera == InitCamera /\ [][NextCamera]_vars

\* the steps of a script run and of the calls it makes are taken once they
\* can be, and time passes; frames, detections and clicks come as they come
SpecCameraFair ==
    /\ SpecCamera
    /\ WF_vars(tick)
    /\ WF_vars(scan_begin)
    /\ WF_vars(analyze_image_provider)
    /\ WF_vars(scan_oracle_returned)
    /\ WF_vars(get_nutrition_source)
    /\ WF_vars(scan_nutrition_returned)
    /\ WF_vars(scan_clear_pending)
    /\ WF_vars(scan_reset)
    /\ WF_vars(barcode_nutrition_returned)


---------------------------------------------------------------------------
(* ui_components/camera_view.py: _render_upload_fallback, the scan of an   *)
(* uploaded image.  It shares st.session_state with the live camera flow.  *)

\* the locals of one upload scan; resolved records that this run stored the
\* snapshot the session holds
UploadRun(pc, result, resolved) ==
    [pc |-> pc, result |-> result, oracle_warnings |-> <<>>, wake |-> 0,
     resolved |-> resolved]

\* lines 1346-1347 and 1379-1383: raw["nutrients"] if there is one, else raw
upload_nutrients(snapshot) ==
    IF "nutrients" \in DOMAIN snapshot.raw
    THEN snapshot.raw["nutrients"]
    ELSE snapshot.raw

\* `if snapshot.get("source")`: the snapshot stored in the session and its
\* source and nutrients written into the result (lines 1341-1348, 1375-1383)
upload_store(sess, r, snapshot) ==
    IF truthy_str(snapshot.source)
    THEN [session |-> [sess EXCEPT !.last_nutrition_snapshot = snapshot],
          run |-> UploadRun(r.pc,
                            [r.result EXCEPT !.data_source = snapshot.source,
                                             !.nutrients = upload_nutrients(snapshot)],
                            TRUE)]
    ELSE [session |-> sess, run |-> r]

\* the file is there and the Analyze button was pressed: lines 1297-1314
upload_begin ==
    /\ run.pc = "idle"
    /\ ai.state = "idle"
    /\ run' = UploadRun("upload_oracle", NoScanResult, FALSE)
    /\ ai' = [NoAnalyzeCall EXCEPT
                !.state = "running",
                !.preferred_provider = s_gemini,
                !.order = _build_provider_order(s_gemini),
                !.i = 1]
    /\ UNCHANGED <<graph_vars, api, gn, keys, history_vars, clock, session,
                   processor, user_profile>>

\* lines 1365-1374 and 1385-1398: the resolver called for the product name
\* when the session holds no snapshot, else the result displayed
upload_resolve_or_display(sess, r) ==
    IF resolver_needed(sess, r.result)
    THEN [gn |-> nutrition_call(None, r.result.product, sess.preferred_sources),
          run |-> [r EXCEPT !.pc = "upload_nutrition"]]
    ELSE [gn |-> NoNutritionCall, run |-> [r EXCEPT !.pc = "upload_display"]]

\* the oracle has returned: lines 1312-1340, the barcode scan of the image
\* and, for a barcode, the call of the resolver
upload_oracle_returned ==
    /\ run.pc = "upload_oracle"
    /\ ai.state = "returned"
    /\ \E barcode_data \in BarcodeScans :
          LET result == [NoScanResult EXCEPT
                           !.product = ai.result.product,
                           !.health_score = ai.result.health_score,
                           !.verdict = ai.result.verdict,
                           !.warnings = ai.result.warnings]
              r == UploadRun("upload_oracle", result, FALSE)
          IN  IF barcode_data # NoBarcode
              THEN /\ gn' = nutrition_call(barcode_data.barcode, barcode_data.name,
                                           session.preferred_sources)
                   /\ run' = [r EXCEPT !.pc = "upload_barcode"]
              ELSE LET next == upload_resolve_or_display(session, r)
                   IN  gn' = next.gn /\ run' = next.run
    /\ ai' = NoAnalyzeCall
    /\ UNCHANGED <<graph_vars, api, keys, history_vars, clock, session,
                   processor, user_profile>>

\* the resolver called for the barcode has returned or raised: lines
\* 1341-1348, then the second lookup of lines 1365-1374
upload_barcode_returned ==
    /\ run.pc = "upload_barcode"
    /\ gn.state \in {"returned", "raised"}
    /\ IF gn.state = "raised"
       THEN /\ run' = NoRun          \* the exception ends the script run
            /\ gn' = NoNutritionCall
            /\ UNCHANGED session
       ELSE LET stored == upload_store(session, run, gn.result)
                next == upload_resolve_or_display(stored.session, stored.run)
            IN  /\ session' = stored.session
                /\ gn' = next.gn
                /\ run' = next.run
    /\ UNCHANGED <<graph_vars, api, keys, ai, history_vars, clock, processor,
                   user_profile>>

\* the resolver called for the product name has returned or raised: lines
\* 1375-1383
upload_nutrition_returned ==
    /\ run.pc = "upload_nutrition"
    /\ gn.state \in {"returned", "raised"}
    /\ IF gn.state = "raised"
       THEN /\ run' = NoRun
            /\ UNCHANGED session
       ELSE LET stored == upload_store(session, run, gn.result)
            IN  /\ session' = stored.session
                /\ run' = [stored.run EXCEPT !.pc = "upload_display"]
    /\ gn' = NoNutritionCall
    /\ UNCHANGED <<graph_vars, api, keys, ai, history_vars, clock, processor,
                   user_profile>>

\* lines 1397-1431: the result and, when the session holds a snapshot, its
\* source shown; the run ends and the session keeps the snapshot
upload_display ==
    /\ run.pc = "upload_display"
    /\ run' = NoRun
    /\ UNCHANGED <<graph_vars, api, gn, keys, ai, history_vars, clock, session,
                   processor, user_profile>>

NextUpload ==
    \/ upload_begin
    \/ analyze_image_provider
    \/ upload_oracle_returned
    \/ get_nutrition_source
    \/ upload_barcode_returned
    \/ upload_nutrition_returned
    \/ upload_display

SpecUpload == InitCamera /\ [][NextUpload]_vars

---------------------------------------------------------------------------
(* Claims about the camera scan flow *)

\* the conflict step of the current scan has run
ConflictStepDone == run.pc \in {"nutrition", "display", "sleeping"}

ScanMatches ==
    IF user_profile.found /\ truthy_str(run.result.product)
    THEN find_conflicts_in_graph(
            graph,
            IF run.result.has_ingredients THEN run.result.ingredients ELSE <<>>,
            user_profile.medical_conditions \o user_profile.allergies).conflicts
    ELSE <<>>

C15_StatusTransitions ==
    [][session'.scan_status # session.scan_status =>
          /\ session'.scan_status = "analyzing" => session.scan_status = "detected"
          /\ session'.scan_status = "complete" => session.scan_status = "analyzing"
          /\ session'.scan_status = "searching" => session.scan_status = "complete"]_vars

C22_ResolverCalledWithoutSnapshot ==
    [][(run.pc = "oracle" /\ run'.pc # "oracle") =>
          LET snapshot == session.last_nutrition_snapshot
              called == gn.state = "idle" /\ gn'.state = "running"
          IN  /\ called <=> (ai.result.product \notin {None, <<>>, ""}
                              /\ snapshot = NoneDict)
              /\ called => (gn'.query = ai.result.product /\ run'.pc = "nutrition")
              /\ snapshot # NoneDict =>
                    /\ gn' = gn
                    /\ run'.pc = "display"
                    /\ session'.last_nutrition_snapshot = snapshot
                    /\ run'.result.nutrients = snapshot.raw
                    /\ run'.result.data_source = snapshot.source]_vars

C22_Witness ==
    /\ run.pc = "display"
    /\ session.last_barcode # NoBarcode
    /\ session.last_nutrition_snapshot # NoneDict
    /\ session.last_nutrition_snapshot.source = "openfoodfacts"
    /\ run.result.data_source = "openfoodfacts"
    /\ run.result.nutrients = session.last_nutrition_snapshot.raw

\* C23: every scan that enters ANALYZING eventually has the status back at
\* SEARCHING with the pending frame and its bounding box cleared, on every
\* path through the handler, the rate-limit rejection included
C23_AnalyzingReturnsToSearching ==
    (session.scan_status = "analyzing") ~>
       (/\ session.scan_status = "searching"
        /\ ~session.pending_analysis_frame.present
        /\ ~session.pending_analysis_bbox)

\* C24: the nutrition snapshot displayed with the result of a scan, and used
\* to fill it, was resolved during that same scan, never carried over from
\* an earlier scan of the session
C24_SnapshotLocalToScan ==
    (run.pc = "upload_display" /\ session.last_nutrition_snapshot # NoneDict)
       => run.resolved

\* a step that stores a pending analysis frame
FrameStored ==
    /\ session'.pending_analysis_frame.present
    /\ session'.pending_analysis_frame # session.pending_analysis_frame

\* C28: the frame processor keeps one pending-scan slot with a cooldown.  A
\* pending frame is stored, with last_analysis_time set to the time of the
\* capture, only by a recv that sees a detection while no pending frame is
\* stored and no capture was stored before or more than 3 seconds passed
\* since the last one; any other recv leaves the pending frame, its bounding
\* box and last_analysis_time as they are, and a stored pending frame is
\* never overwritten
C28_SinglePendingSlotWithCooldown ==
    [][/\ FrameStored =>
             /\ processor'.current_detections
             /\ ~session.pending_analysis_frame.present
             /\ \/ processor.last_analysis_time.is_none
                \/ clock - processor.last_analysis_time.t > 3
             /\ processor'.last_analysis_time = [is_none |-> FALSE, t |-> clock]
             /\ session'.pending_analysis_frame.frame = clock
             /\ session'.pending_analysis_bbox
       /\ processor'.last_analysis_time # processor.last_analysis_time => FrameStored
       /\ (processor' # processor /\ ~FrameStored) =>
             /\ session'.pending_analysis_frame = session.pending_analysis_frame
             /\ session'.pending_analysis_bbox = session.pending_analysis_bbox
       /\ (session.pending_analysis_frame.present
           /\ session'.pending_analysis_frame.present) =>
             session'.pending_analysis_frame = session.pending_analysis_frame]_vars

C28_Witness ==
    /\ session.pending_analysis_frame = [present |-> TRUE, frame |-> 4]
    /\ session.pending_analysis_bbox
    /\ processor.last_analysis_time = [is_none |-> FALSE, t |-> 4]
    /\ processor.current_detections
    /\ session.scan_status = "analyzing"
    /\ run.pc = "idle"

---------------------------------------------------------------------------
(* database/db_manager.py: the scan history, save_food_analysis and        *)
(* get_user_history over the table food_analysis                           *)

MaxRows == 3                \* rows the model lets the table food_analysis hold
MaxLimit == 2               \* largest limit the model passes to get_user_history

\* Python values of the score fields: an int, a str or None
py_int(n) == [type |-> "int", int |-> n, str |-> <<>>]
py_str(s) == [type |-> "str", int |-> 0, str |-> s]
py_none == [type |-> "NoneType", int |-> 0, str |-> <<>>]

DigitChars == <<"0", "1", "2", "3", "4", "5", "6", "7", "8", "9">>

\* str.isdigit(): not empty and every character a digit
isdigit(s) ==
    /\ Len(s) > 0
    /\ \A i \in 1..Len(s) : \E d \in 1..10 : DigitChars[d] = s[i]

digit_value(c) == (CHOOSE d \in 1..10 : DigitChars[d] = c) - 1

RECURSIVE int_of_digits(_)
\* int(s) of a string of decimal digits
int_of_digits(s) ==
    IF Len(s) = 0 THEN 0
    ELSE 10 * int_of_digits(SubSeq(s, 1, Len(s) - 1)) + digit_value(s[Len(s)])

\* lines 264-267: a str score becomes int(score) if it is all digits, else 0
ensure_numeric(score) ==
    IF score.type = "str"
    THEN py_int(IF isdigit(score.str) THEN int_of_digits(score.str) ELSE 0)
    ELSE score

\* int(score) at lines 276-277 raises TypeError for None
int_raises(score) == score.type = "NoneType"

\* the row save_food_analysis inserts (raw_data is never selected again)
food_analysis_row(user_id, analysis_data, now) ==
    [user_id |-> user_id,
     product |-> get(analysis_data, "product", "Unknown"),
     health_score |->
        ensure_numeric(get(analysis_data, "health_score", py_int(0))).int,
     nova_score |->
        ensure_numeric(get(analysis_data, "nova_score", py_int(0))).int,
     verdict |-> get(analysis_data, "verdict", "UNKNOWN"),
     created_at |-> now]

save_raises(analysis_data, db_error) ==
    \/ db_error
    \/ int_raises(ensure_numeric(get(analysis_data, "health_score", py_int(0))))
    \/ int_raises(ensure_numeric(get(analysis_data, "nova_score", py_int(0))))

UserIds == {"u1", "u2"}

AnalysisData ==
    { ("product" :> "Cola") @@ ("health_score" :> py_int(30))
         @@ ("verdict" :> "WARNING"),
      ("health_score" :> py_str(<<"7", "2">>))
         @@ ("nova_score" :> py_str(<<"n", "/", "a">>)),
      ("product" :> "Apple") @@ ("health_score" :> py_none) }

\* DBManager.save_food_analysis(user_id, analysis_data): one INSERT stamped
\* with datetime.utcnow(); any exception leaves the table as it was
save_food_analysis ==
    /\ history = NoHistoryCall
    /\ Len(food_analysis) < MaxRows
    /\ \E user_id \in UserIds, analysis_data \in AnalysisData,
          db_error \in BOOLEAN :
          food_analysis' =
             IF save_raises(analysis_data, db_error)
             THEN food_analysis
             ELSE Append(food_analysis,
                         food_analysis_row(user_id, analysis_data, clock))
    /\ UNCHANGED <<history, clock, outside_history>>

\* WHERE user_id = ?: the row ids (positions in the table) of the user
where_user_id_any(table, user_id) == DOMAIN table
where_user_id(table, user_id) ==
    {i \in DOMAIN table : table[i].user_id = user_id}

\* ORDER BY created_at DESC: ids is an ordering of the selected row ids in
\* which created_at never increases; rows with equal created_at come in an
\* order SQL leaves open
order_by_created_at_desc(table, selected, ids) ==
    /\ DOMAIN ids = 1..Cardinality(selected)
    /\ {ids[k] : k \in DOMAIN ids} = selected
    /\ \A k \in 1..(Len(ids) - 1) :
          table[ids[k]].created_at >= table[ids[k + 1]].created_at

\* LIMIT ?
limit_rows(ids, limit) == SubSeq(ids, 1, Min(limit, Len(ids)))

\* lines 358-367: the mapping returned for a fetched row
history_record(row) ==
    [product |-> row.product,
     health_score |-> row.health_score,
     nova_score |-> row.nova_score,
     verdict |-> row.verdict,
     created_at |-> row.created_at]

\* DBManager.get_user_history(user_id, limit): one SELECT; any exception
\* gives []
get_user_history ==
    /\ history = NoHistoryCall
    /\ \E user_id \in UserIds, limit \in 0..MaxLimit, db_error \in BOOLEAN :
          LET selected == where_user_id(food_analysis, user_id)
          IN  \E ids \in [1..Cardinality(selected) -> selected] :
                 /\ order_by_created_at_desc(food_analysis, selected, ids)
                 /\ history' =
                       [state |-> "returned",
                        user_id |-> user_id,
                        limit |-> limit,
                        rows |->
                           IF db_error THEN <<>>
                           ELSE LET fetched == limit_rows(ids, limit)
                                IN  [k \in DOMAIN fetched |->
                                        history_record(food_analysis[fetched[k]])]]
    /\ UNCHANGED <<food_analysis, clock, outside_history>>

\* the caller has consumed the list
get_user_history_done ==
    /\ history.state = "returned"
    /\ history' = NoHistoryCall
    /\ UNCHANGED <<food_analysis, clock, outside_history>>

InitHistory ==
    /\ graph_unused
    /\ nutrition_unused
    /\ engine_unused
    /\ history_unused
    /\ camera_unused
    /\ clock = 0

NextHistory ==
    \/ tick
    \/ save_food_analysis
    \/ get_user_history
    \/ get_user_history_done

SpecHistory == InitHistory /\ [][NextHistory]_vars

---------------------------------------------------------------------------
(* Claims about the scan history                                           *)

\* the saves of user u (row ids) and the records that report them
SavesOf(u) == {i \in DOMAIN food_analysis : food_analysis[i].user_id = u}

RecordsOf(u) == {history_record(food_analysis[i]) : i \in SavesOf(u)}

\* how many stored rows of user u are reported as record r
SavedCount(u, r) ==
    Cardinality({i \in SavesOf(u) : history_record(food_analysis[i]) = r})

ReturnedCount(r) ==
    Cardinality({k \in DOMAIN history.rows : history.rows[k] = r})

\* C16: get_user_history(u, limit) returns only records saved for user u
\* (none more often than it was saved), at most limit of them, ordered by
\* creation time descending, and no save of u that is left out is more recent
\* than one that is returned
C16_HistoryRetrieval ==
    history.state = "returned" =>
       LET rows == history.rows
           u == history.user_id
       IN  /\ \A k \in DOMAIN rows :
                 /\ rows[k] \in RecordsOf(u)
                 /\ ReturnedCount(rows[k]) <= SavedCount(u, rows[k])
           /\ Len(rows) <= history.limit
           /\ \A k \in 1..(Len(rows) - 1) :
                 rows[k].created_at >= rows[k + 1].created_at
           /\ \A r \in RecordsOf(u), k \in DOMAIN rows :
                 r.created_at > rows[k].created_at =>
                    ReturnedCount(r) = SavedCount(u, r)

C16_Witness ==
    /\ history.state = "returned"
    /\ history.user_id = "u1"
    /\ history.limit = 2
    /\ Len(food_analysis) = 3
    /\ \E i \in DOMAIN food_analysis : food_analysis[i].user_id = "u2"
    /\ Cardinality(SavesOf("u1")) = 2
    /\ Len(history.rows) = 2
    /\ history.rows[1].created_at > history.rows[2].created_at
    /\ history.rows[1].health_score = 72

---------------------------------------------------------------------------
(* database/db_manager.py: get_db_manager, called by the script threads of *)
(* the sessions of one process.  No lock guards the global.                *)

Threads == 1..MaxThreads

\* a session thread calls get_db_manager()
get_db_manager_enter(t) ==
    /\ threads[t].pc = "idle"
    /\ threads' = [threads EXCEPT ![t].pc = "test"]
    /\ UNCHANGED <<db_manager, instances, outside_singleton>>

\* `if db_manager is None:`
get_db_manager_test(t) ==
    /\ threads[t].pc = "test"
    /\ threads' = [threads EXCEPT
                     ![t].pc = IF db_manager = 0 THEN "construct" ELSE "return"]
    /\ UNCHANGED <<db_manager, instances, outside_singleton>>

\* DBManager(): __init__ runs _init_graph, which populates the graph of the
\* new object from the seed list
get_db_manager_construct(t) ==
    /\ threads[t].pc = "construct"
    /\ instances' = Append(instances, _populate_health_graph)
    /\ threads' = [threads EXCEPT ![t].pc = "assign",
                                  ![t].instance = Len(instances) + 1]
    /\ UNCHANGED <<db_manager, outside_singleton>>

\* `db_manager = ...`: the new object stored in the global
get_db_manager_assign(t) ==
    /\ threads[t].pc = "assign"
    /\ db_manager' = threads[t].instance
    /\ threads' = [threads EXCEPT ![t].pc = "return"]
    /\ UNCHANGED <<instances, outside_singleton>>

\* `return db_manager`: the global read again
get_db_manager_return(t) ==
    /\ threads[t].pc = "return"
    /\ threads' = [threads EXCEPT ![t].pc = "done", ![t].returned = db_manager]
    /\ UNCHANGED <<db_manager, instances, outside_singleton>>

InitSingleton ==
    /\ graph_unused
    /\ nutrition_unused
    /\ engine_unused
    /\ history_unused
    /\ camera_unused
    /\ clock = 0

NextSingleton ==
    \E t \in Threads :
       \/ get_db_manager_enter(t)
       \/ get_db_manager_test(t)
       \/ get_db_manager_construct(t)
       \/ get_db_manager_assign(t)
       \/ get_db_manager_return(t)

SpecSingleton == InitSingleton /\ [][NextSingleton]_vars

---------------------------------------------------------------------------
(* Claims about the database handle                                        *)

\* C29: under any interleaving of concurrent get_db_manager calls at most
\* one DBManager is ever constructed (so the seed list populates a conflict
\* graph exactly once) and every caller receives the same instance
C29_ProcessWideSingleton ==
    /\ Len(instances) <= 1
    /\ \A t, u \in Threads :
          (threads[t].pc = "done" /\ threads[u].pc = "done") =>
             threads[t].returned = threads[u].returned

---------------------------------------------------------------------------
(* The login/register page (ui_components/auth_ui.py, utils/i18n.py)       *)
(*                                                                         *)
(* Every browser session has its own st.session_state and its own script   *)
(* runs.  login[s].lang is st.session_state.lang and login[s].lang_selector *)
(* is the widget state under key "lang_selector" ("unset" while the key is *)
(* absent); lang_local and new_lang are the locals of the running script;  *)
(* reruns counts the st.rerun() calls; rendered says that the forms under  *)
(* the selector have been drawn by some run.                               *)

Sessions == 1..MaxSessions

\* the options of the selectbox; Arabic stands for the Arabic-script label
English == "English"
Arabic == "al-arabiya"
LanguageOptions == <<English, Arabic>>

\* i18n.set_lang
set_lang(current, lang) == IF lang = "ar" THEN "ar" ELSE "en"

\* st.rerun(): the run ends here and the script starts again from the top
rerun(l) ==
    [l EXCEPT !.pc = "get_lang", !.lang_local = "unset", !.new_lang = "unset",
              !.reruns = Min(l.reruns + 1, MaxReruns)]

\* the page is opened, or a finished run is followed by the next one
render_login_register(s) ==
    /\ login[s].pc = "idle"
    /\ login' = [login EXCEPT ![s].pc = "get_lang"]
    /\ UNCHANGED outside_login

\* line 12, i18n.get_lang: the default "en" is stored when no language is set
get_lang(s) ==
    /\ login[s].pc = "get_lang"
    /\ LET current == IF login[s].lang = "unset" THEN "en" ELSE login[s].lang
       IN login' = [login EXCEPT ![s].lang = current, ![s].lang_local = current,
                                 ![s].pc = "selectbox"]
    /\ UNCHANGED outside_login

\* lines 13-18: a keyed selectbox returns the widget state, and the option at
\* `index` when the key is not in the session yet
selectbox(s) ==
    /\ login[s].pc = "selectbox"
    /\ LET index == IF login[s].lang_local = "en" THEN 0 ELSE 1
           value == IF login[s].lang_selector = "unset"
                    THEN LanguageOptions[index + 1]
                    ELSE login[s].lang_selector
       IN login' = [login EXCEPT ![s].lang_selector = value,
                                 ![s].new_lang = value,
                                 ![s].pc = "language_chosen"]
    /\ UNCHANGED outside_login

\* lines 19-76: the two branches on new_lang, then the forms
language_chosen(s) ==
    /\ login[s].pc = "language_chosen"
    /\ LET l == login[s]
       IN login' =
             [login EXCEPT ![s] =
                IF l.new_lang = Arabic
                THEN rerun([l EXCEPT !.lang = set_lang(l.lang, "ar")])
                ELSE IF l.new_lang = English
                THEN rerun([l EXCEPT !.lang = set_lang(l.lang, "en")])
                ELSE [l EXCEPT !.pc = "idle", !.lang_local = "unset",
                               !.new_lang = "unset", !.rendered = TRUE]]
    /\ UNCHANGED outside_login

\* the user picks the other option in the selector: the widget state changes
\* and the script is run again from the top
user_selects(s, choice) ==
    /\ login[s].lang_selector # "unset"
    /\ choice # login[s].lang_selector
    /\ login' = [login EXCEPT ![s].lang_selector = choice,
                              ![s].pc = "get_lang",
                              ![s].lang_local = "unset",
                              ![s].new_lang = "unset"]
    /\ UNCHANGED outside_login

InitLogin ==
    /\ graph_unused
    /\ nutrition_unused
    /\ engine_unused
    /\ history_unused
    /\ camera_unused
    /\ clock = 0

NextLogin ==
    \E s \in Sessions :
       \/ render_login_register(s)
       \/ get_lang(s)
       \/ selectbox(s)
       \/ language_chosen(s)
       \/ \E choice \in {English, Arabic} : user_selects(s, choice)

SpecLogin == InitLogin /\ [][NextLogin]_vars

\* a script run that has started goes on to its end in every session; the
\* user may stop touching the selector
SpecLoginFair ==
    /\ SpecLogin
    /\ \A s \in Sessions :
          /\ WF_vars(render_login_register(s))
          /\ WF_vars(get_lang(s))
          /\ WF_vars(selectbox(s))
          /\ WF_vars(language_chosen(s))

---------------------------------------------------------------------------
(* Claims about the login page                                             *)

\* C30: the login/register page terminates its rerun cycle: in every
\* session a script run of render_login_register is followed, after
\* finitely many reruns, by a run that renders the login and register forms
C30_LoginPageRendersForms ==
    \A s \in Sessions : (login[s].pc = "get_lang") ~> login[s].rendered

===========================================================================
